---- MODULE Spec2Model ----
(***************************************************************************)
(* Model of the MIDI note pipeline of the musicvirt visualizer:             *)
(*   - note processing and the analysis snapshot (MidiHandler in            *)
(*     public/midi-handler.js and public/midi-data-analyzer.js),            *)
(*   - the timer based playback schedulers (WebAudioFontPlayer in           *)
(*     public/midi-player-waf.js, SpessaMidiPlayer in                       *)
(*     public/midi-player-fluid.js) and the Tone.Transport based one        *)
(*     (MidiHandler in public/midi-handler.js, driven through               *)
(*     public/midi-player-manager.js),                                      *)
(*   - instrument loading (the two MidiEngine classes of                    *)
(*     public/midi-audio-engine.js and the sampler MidiHandler of           *)
(*     public/midi-handler.js),                                             *)
(*   - initialisation of the player manager and of a MidiEngine,            *)
(*   - the frame loop and the mode buttons of AudioVisualizerApp            *)
(*     (public/app.js, unnamed/part_005), the video exporter                *)
(*     (public/video-exporter.js, public/viz-spectrum.js) and the beat      *)
(*     detection of AudioAnalyzer (public/audio-analyzer.js).               *)
(*                                                                         *)
(* Units.  Times are integers in milliseconds (the code uses seconds as     *)
(* floats: 0.02 s is 20).  Velocities and energies are integers in units    *)
(* of 1/VelOne (the code uses floats in [0,1]: 1.0 is VelOne).  A bar or a   *)
(* spectrum cell is an integer 0..255 (the code divides a bar by 255).      *)
(*                                                                         *)
(* A JavaScript null / undefined object is the empty sequence Null and an   *)
(* object x is the one element sequence Some(x).                            *)
(***************************************************************************)
EXTENDS Integers, Sequences, FiniteSets

VARIABLES
    variant,        \* which class of the repository this instance is
    input,          \* the parsed MIDI file the user has selected
    midi,           \* this.midi: Null or Some(file)
    notes,          \* this.notes: the flat note list
    channels,       \* this.channels: channel id -> notes of that channel
    snap,           \* the value returned by the last getAnalysis call
    \* a player (WebAudioFontPlayer, SpessaMidiPlayer)
    isPlaying,      \* this.isPlaying
    isPaused,       \* this.isPaused
    currentTime,    \* this.currentTime
    duration,       \* this.duration
    pauseOffset,    \* this.pauseOffset
    startTimestamp, \* this.startTimestamp
    animationFrame, \* the frame request whose id this.animationFrame holds
    scheduledEvents,\* this.scheduledEvents: the ids of the timers registered
    instruments,    \* this.instruments: the keys that hold a loaded preset
    \* the host (browser)
    timers,         \* the pending setTimeout callbacks
    now,            \* performance.now()
    suspended,      \* audioContext.state === 'suspended'
    pendingPlays,   \* play() calls waiting in await audioContext.resume()
    loading,        \* tracks whose Soundfont.instrument promise is unsettled
    \* history
    lastTrigger,    \* the last note triggered since the latest scheduling pass
    lastSchedule,   \* the offset and file of the pass whose registrations stand
    resched,        \* how far a stop-and-reschedule has got
    \* instrument loading (MidiEngine, sampler MidiHandler)
    manifest,       \* the libraries samples/manifest.json has files for
    samplers,       \* this.samplers: key -> the Tone.Sampler constructed for it
    trackSamplers,  \* this.trackSamplers: track index -> key of its sampler
    parts,          \* this.parts: the Tone.Parts scheduled
    loadPhase,      \* where the latest loadMidi call stands
    awaited,        \* the keys whose promise loadInstruments still awaits
    loads,          \* loadMidi calls so far
    createdNow,     \* samplers constructed by the latest loadInstruments
    polls,          \* parity of the polling checks that re-armed themselves
    \* the application and the player manager
    initialized,    \* MidiPlayerManager.isInitialized (the manager has a player)
    isMidiMode,     \* AudioVisualizerApp.isMidiMode
    appIsPlaying,   \* AudioVisualizerApp.isPlaying
    mgrIsPlaying,   \* MidiPlayerManager.isPlaying
    mgrIsPaused,    \* MidiPlayerManager.isPaused
    vizMidi,        \* AudioVisualizerApp.midiHandler.midi
    appLoad,        \* the processFile call that awaits its load: Null or Some
    viaManager,     \* for each waiting play(): does MidiPlayerManager.play await it
    alerted,        \* an alert was shown for the file selected last
    gesture,        \* history: pause, seek while paused, resume
    \* the synths of a MidiHandler and the transport
    drumSynths,     \* this.drumSynths is set
    undisposed,     \* sets of synths created by scheduleAllNotes and not disposed
    transportStart, \* Null, or Some(the clock value at which Tone.Transport started)
    \* initialisation of the player manager and of a MidiEngine
    mgrCalls,       \* init() / loadMidi() calls made on the manager so far
    mgrImporting,   \* init() calls waiting in await import(...)
    mgrIniting,     \* init() calls waiting in await this.player.init()
    players,        \* player instances constructed by the manager
    engCalls,       \* MidiEngine.init() calls made so far
    engStarting,    \* MidiEngine.init() calls waiting for the audio context
    engInitialized, \* MidiEngine.isInitialized
    outputs,        \* Tone.Gain output chains built by MidiEngine.init()
    \* the frame loop of AudioVisualizerApp
    appStarted,     \* init() has run
    visualizers,    \* this.visualizers: index (from 0) -> state of the visualizer
    currentModeIndex, \* this.currentModeIndex
    frameArmed,     \* a requestAnimationFrame callback of animate is pending
    frameCalls,     \* history: the visualizer methods the last frame called
    \* VideoExporter and its button
    isRecording,    \* this.isRecording
    recorder,       \* this.recorder: Null or Some(state of the MediaRecorder)
    exportPhase,    \* where the startRecording call in flight waits
    canvasSize,     \* canvas.width x canvas.height
    originalSize,   \* this.originalWidth x this.originalHeight
    windowSize,     \* window.innerWidth x window.innerHeight
    btnRecording,   \* the export button carries the class 'recording'
    \* AudioAnalyzer.detectBeat
    energyHistory,  \* this.energyHistory
    lastBeatTime,   \* this.lastBeatTime
    beatClock,      \* performance.now() as detectBeat reads it
    beatTimes,      \* history: the times of the last two beats reported
    samples         \* history: detectBeat calls made so far, counted up to MinSamples

aVars == <<midi, notes, channels, snap>>
pVars == <<isPlaying, isPaused, currentTime, duration, pauseOffset, startTimestamp,
           animationFrame, scheduledEvents, instruments>>
hostVars == <<timers, now, suspended, pendingPlays>>
histVars == <<lastTrigger, lastSchedule, resched>>
appVars == <<initialized, isMidiMode, appIsPlaying, mgrIsPlaying, mgrIsPaused, vizMidi,
             appLoad, viaManager, alerted, gesture>>
synthVars == <<drumSynths, undisposed, transportStart>>
engVars == <<manifest, samplers, trackSamplers, parts, loadPhase, awaited, loads, createdNow,
             polls>>
lVars == <<engVars, appVars, synthVars>>
initVars == <<mgrCalls, mgrImporting, mgrIniting, players, engCalls, engStarting,
              engInitialized, outputs>>
\* What the operations of the data, player and loader objects leave alone:
\* the class modelled and the other objects of the page.
viewVars == <<appStarted, visualizers, currentModeIndex, frameArmed, frameCalls>>
exportVars == <<isRecording, recorder, exportPhase, canvasSize, originalSize, windowSize,
                btnRecording>>
beatVars == <<energyHistory, lastBeatTime, beatClock, beatTimes, samples>>
pageVars == <<viewVars, exportVars, beatVars>>
idleVars == <<variant, initVars, pageVars>>
vars == <<idleVars, input, aVars, pVars, hostVars, loading, histVars, lVars>>
\* What the frame loop, the exporter and the audio analyzer leave alone.
coreVars == <<variant, initVars, input, aVars, pVars, hostVars, loading, histVars, lVars>>

Null == <<>>
Some(x) == <<x>>

Min(a, b) == IF a <= b THEN a ELSE b
Abs(a) == IF a < 0 THEN -a ELSE a

\* Math.max over a finite set of naturals, starting from 0 (let max = 0).
SetMax(S) == IF S = {} THEN 0
             ELSE LET x == CHOOSE y \in S : \A z \in S : z <= y IN x

RECURSIVE SumSeq(_)
\* reduce((sum, n) => sum + n, 0) over a sequence of numbers.
SumSeq(s) == IF s = <<>> THEN 0 ELSE Head(s) + SumSeq(Tail(s))

RECURSIVE FlatMap(_, _)
\* Concatenation of Op(i) for i = 1 .. n, in order.
FlatMap(Op(_), n) == IF n = 0 THEN <<>> ELSE FlatMap(Op, n - 1) \o Op(n)

----------------------------------------------------------------------------
(* Program constants.                                                       *)

VelOne == 4          \* the float 1.0 of Math.min(1, ...)
BeatEps == 20        \* 0.02 s
BassBelow == 48      \* n.note < 48 is bass
MidBelow == 72       \* n.note < 72 is mid, the rest high
SpectrumSize == 128  \* new Uint8Array(128)
NumBars == 32        \* for (let i = 0; i < 32; i++)
BarWidth == 4        \* for (let j = 0; j < 4; j++)
ByteMax == 255       \* n.velocity * 255
BinLow == 21         \* (n.note - 21) / 87
BinSpan == 87
WaveMid == 128       \* waveform fill(128)
DefaultCentroid == 60
PercChannel == 9     \* track.channel === 9

----------------------------------------------------------------------------
(* The parsed MIDI input (the value of new Midi(arrayBuffer)): a sequence   *)
(* of tracks, each [channel, program, notes], a note being                  *)
(* [midi, name, time, duration, velocity].                                  *)

\* note.name of @tonejs/midi: pitch class and octave of the MIDI number.
NoteName(m) == <<m % 12, (m \div 12) - 1>>

MkNote(m, t, d, v) ==
    [midi |-> m, name |-> NoteName(m), time |-> t, duration |-> d, velocity |-> v]

\* The notes a track may hold: one at each edge of the bass / mid / high
\* ranges; a long note starting at 1.000, a note shorter than the beat
\* window, a note that started 10 ms before 1.000 and a note ending at 1.000.
NoteChoices ==
    { MkNote(47, 1000, 500, 4), MkNote(48, 1000, 10, 3),
      MkNote(71, 990, 30, 2),   MkNote(72, 0, 1000, 4) }

\* The channel of each track of a file.
Layouts == { <<>>, <<0>>, <<0, 0>>, <<0, 9>>, <<1, 0, 9>> }

MaxNotes == 2

RECURSIVE SeqsUpTo(_, _)
\* All sequences over S of length at most n.
SeqsUpTo(S, n) ==
    IF n = 0 THEN { <<>> }
    ELSE LET shorter == SeqsUpTo(S, n - 1)
         IN shorter \cup { Append(s, x) : s \in shorter, x \in S }

\* The notes of track i among placed notes <<track, note>>, in file order.
TrackNotes(placed, i) ==
    LET mine == SelectSeq(placed, LAMBDA p : p[1] = i)
    IN [k \in 1..Len(mine) |-> mine[k][2]]

MkFile(layout, placed) ==
    [i \in 1..Len(layout) |->
        [channel |-> layout[i], program |-> 0, notes |-> TrackNotes(placed, i)]]

\* Track.notes of @tonejs/midi: a track keeps its notes in time order.
InTimeOrder(file) ==
    \A i \in 1..Len(file) : \A k \in 1..(Len(file[i].notes) - 1) :
        file[i].notes[k].time <= file[i].notes[k + 1].time

\* Every file with one of the layouts and at most MaxNotes notes in all.
AnalysisFiles ==
    { file \in UNION { { MkFile(layout, placed) :
                           placed \in SeqsUpTo((1..Len(layout)) \X NoteChoices, MaxNotes) } :
                       layout \in Layouts } :
        InTimeOrder(file) }

QueryTimes == { 0, 981, 999, 1000, 1010, 1015, 1019, 1020 }

----------------------------------------------------------------------------
(* Note processing.                                                         *)

\* The noteObj literal of processNotes.
NoteObj(note, channel) ==
    [note |-> note.midi, name |-> note.name, velocity |-> note.velocity,
     startTime |-> note.time, endTime |-> note.time + note.duration,
     duration |-> note.duration, channel |-> channel]

\* The notes one track pushes, in track order.
TrackObjs(track) ==
    [k \in 1..Len(track.notes) |-> NoteObj(track.notes[k], track.channel)]

RECURSIVE InsertByStart(_, _)
\* x placed after every element that does not start later than it.
InsertByStart(sorted, x) ==
    IF sorted = <<>> THEN <<x>>
    ELSE IF Head(sorted).startTime - x.startTime > 0
         THEN <<x>> \o sorted
         ELSE <<Head(sorted)>> \o InsertByStart(Tail(sorted), x)

\* The array as pushed: what processNotes leaves when the sort is missing.
SortKeepOrder(s) == s

RECURSIVE SortByStart(_)
\* notes.sort((a, b) => a.startTime - b.startTime): a stable sort.
SortByStart(s) ==
    IF s = <<>> THEN <<>>
    ELSE InsertByStart(SortByStart(SubSeq(s, 1, Len(s) - 1)), s[Len(s)])

\* this.notes after processNotes: every track in order (a track without
\* notes pushes nothing), then sorted.
ProcessedNotes(tracks) ==
    SortByStart(FlatMap(LAMBDA i : TrackObjs(tracks[i]), Len(tracks)))

\* The channel key created before the empty-track test: a key for every track.
ProcessedChannelsEveryTrack(tracks) ==
    LET ids == { tracks[i].channel : i \in 1..Len(tracks) }
    IN [c \in ids |->
          FlatMap(LAMBDA i : IF tracks[i].channel = c THEN TrackObjs(tracks[i]) ELSE <<>>,
                  Len(tracks))]

\* this.channels after processNotes: a key for each channel of a track
\* that has notes, holding the notes of those tracks in push order.
ProcessedChannels(tracks) ==
    LET ids == { tracks[i].channel : i \in { j \in 1..Len(tracks) : tracks[j].notes # <<>> } }
    IN [c \in ids |->
          FlatMap(LAMBDA i : IF tracks[i].channel = c THEN TrackObjs(tracks[i]) ELSE <<>>,
                  Len(tracks))]

----------------------------------------------------------------------------
(* The analysis snapshot.                                                   *)

\* A note taken as over at the instant it ends.
IsActiveOpenEnd(n, t) == t >= n.startTime /\ t < n.endTime

\* currentTime >= n.startTime && currentTime <= n.endTime
IsActive(n, t) == t >= n.startTime /\ t <= n.endTime

ActiveNotes(ns, t) == SelectSeq(ns, LAMBDA n : IsActive(n, t))

Velocities(ns) == [k \in 1..Len(ns) |-> ns[k].velocity]

\* bass / mid / high accumulated over the active notes.
BassSum(act) == SumSeq(Velocities(SelectSeq(act, LAMBDA n : n.note < BassBelow)))
MidSum(act) ==
    SumSeq(Velocities(SelectSeq(act, LAMBDA n : n.note >= BassBelow /\ n.note < MidBelow)))
HighSum(act) == SumSeq(Velocities(SelectSeq(act, LAMBDA n : n.note >= MidBelow)))

\* The sum returned as accumulated, without Math.min.
ClampNone(x) == x

\* Math.min(1, x)
Clamp(x) == Min(VelOne, x)

\* n.velocity * 255 stored into a Uint8Array cell.
ByteOf(v) == ((v * ByteMax) \div VelOne) % (ByteMax + 1)

\* midi-handler.js: Math.floor(((n.note - 21) / 87) * 128)
HandlerBin(n) == ((n.note - BinLow) * SpectrumSize) \div BinSpan

\* midi-data-analyzer.js: Math.floor(n.note)
AnalyzerBin(n) == n.note

\* spectrum after the forEach over the active notes (cells 0 .. 127).
SpectrumOf(act, Bin(_)) ==
    [b \in 0..(SpectrumSize - 1) |->
        SetMax({ ByteOf(act[k].velocity) : k \in { j \in 1..Len(act) : Bin(act[j]) = b } })]

\* bars: the maximum of each group of four cells (kept as 0 .. 255).
BarsOf(spectrum) ==
    [i \in 1..NumBars |->
        SetMax({ spectrum[(i - 1) * BarWidth + j] : j \in 0..(BarWidth - 1) })]

\* The beat window closed at 0.02 s instead of open.
IsBeatOfInclusive(act, t) == \E k \in 1..Len(act) : Abs(act[k].startTime - t) <= BeatEps

\* activeNotes.some(n => Math.abs(n.startTime - currentTime) < 0.02)
IsBeatOf(act, t) == \E k \in 1..Len(act) : Abs(act[k].startTime - t) < BeatEps

RECURSIVE SortedIds(_)
\* Object.keys(this.channels).map(Number).sort((a, b) => a - b)
SortedIds(S) ==
    IF S = {} THEN <<>>
    ELSE LET m == CHOOSE x \in S : \A y \in S : x <= y
         IN <<m>> \o SortedIds(S \ {m})

RECURSIVE DescendingIds(_)
\* The ids sorted the other way round: (a, b) => b - a.
DescendingIds(S) ==
    IF S = {} THEN <<>>
    ELSE LET m == CHOOSE x \in S : \A y \in S : x >= y
         IN <<m>> \o DescendingIds(S \ {m})

GetChannelIdsDescending(chs) == DescendingIds(DOMAIN chs)

GetChannelIds(chs) == SortedIds(DOMAIN chs)

GetChannelAnalysis(chs, t) ==
    LET ids == GetChannelIds(chs)
    IN [k \in 1..Len(ids) |->
          LET act == ActiveNotes(chs[ids[k]], t)
          IN [channelId |-> ids[k],
              energy |-> Min(VelOne, SumSeq(Velocities(act))),
              noteCount |-> Len(act),
              isBeat |-> IsBeatOf(act, t)]]

Waveform == [b \in 0..(SpectrumSize - 1) |-> WaveMid]

\* getAnalysis of public/midi-handler.js (soundfont MidiHandler).
HandlerAnalysis(ns, chs, t) ==
    LET act == ActiveNotes(ns, t)
        spectrum == SpectrumOf(act, HandlerBin)
    IN [spectrum |-> spectrum,
        waveform |-> Waveform,
        bars |-> BarsOf(spectrum),
        bass |-> Clamp(BassSum(act)),
        mid |-> Clamp(MidSum(act)),
        high |-> Clamp(HighSum(act)),
        bassNorm |-> Clamp(BassSum(act)),
        midNorm |-> Clamp(MidSum(act)),
        highNorm |-> Clamp(HighSum(act)),
        totalEnergy |-> Min(VelOne, BassSum(act) + MidSum(act) + HighSum(act)) * ByteMax,
        isBeat |-> IsBeatOf(act, t),
        channelData |-> GetChannelAnalysis(chs, t),
        isMidi |-> TRUE]

\* getEmptyAnalysis of public/midi-data-analyzer.js.
GetEmptyAnalysis ==
    [spectrum |-> [b \in 0..(SpectrumSize - 1) |-> 0],
     waveform |-> Waveform,
     bars |-> [i \in 1..NumBars |-> 0],
     bass |-> 0, mid |-> 0, high |-> 0, totalEnergy |-> 0,
     isMidi |-> TRUE, channelData |-> <<>>]

\* getAnalysis of public/midi-data-analyzer.js.  spectralCentroid is the
\* exact quotient weightedSum / weightTotal, kept as numerator and denominator.
AnalyzerAnalysis(m, ns, chs, t) ==
    IF m = Null THEN GetEmptyAnalysis
    ELSE
    LET act == ActiveNotes(ns, t)
        spectrum == SpectrumOf(act, AnalyzerBin)
        weightedSum == SumSeq([k \in 1..Len(act) |-> act[k].note * act[k].velocity])
        weightTotal == SumSeq(Velocities(act))
    IN [spectrum |-> spectrum,
        waveform |-> Waveform,
        bars |-> BarsOf(spectrum),
        bass |-> Clamp(BassSum(act)),
        mid |-> Clamp(MidSum(act)),
        high |-> Clamp(HighSum(act)),
        bassNorm |-> Clamp(BassSum(act)),
        midNorm |-> Clamp(MidSum(act)),
        highNorm |-> Clamp(HighSum(act)),
        totalEnergy |-> Min(VelOne, BassSum(act) + MidSum(act) + HighSum(act)) * ByteMax,
        spectralCentroid |->
            IF weightTotal > 0 THEN [num |-> weightedSum, den |-> weightTotal]
            ELSE [num |-> DefaultCentroid, den |-> 1],
        isBeat |-> IsBeatOf(act, t),
        channelData |-> GetChannelAnalysis(chs, t),
        isMidi |-> TRUE]

----------------------------------------------------------------------------
(* The data side of a MidiHandler: load a file, ask for a snapshot.         *)

AnalysisVariants == { "handler", "analyzer" }

\* The fields a player's constructor sets, and the host at page load.
PlayerConstructed ==
    /\ isPlaying = FALSE
    /\ isPaused = FALSE
    /\ currentTime = 0
    /\ duration = 0
    /\ pauseOffset = 0
    /\ startTimestamp = 0
    /\ animationFrame = "none"
    /\ scheduledEvents = <<>>
    /\ instruments = << >>
    /\ timers = {}
    /\ now = 0
    /\ suspended = FALSE
    /\ pendingPlays = <<>>
    /\ loading = {}
    /\ lastTrigger = Null
    /\ lastSchedule = Null
    /\ resched = "none"
    /\ drumSynths = FALSE
    /\ undisposed = 0
    /\ transportStart = Null

\* The fields a MidiEngine's constructor sets.
EngineConstructed ==
    /\ samplers = << >>
    /\ trackSamplers = << >>
    /\ parts = {}
    /\ loadPhase = "idle"
    /\ awaited = {}
    /\ loads = 0
    /\ createdNow = 0
    /\ polls = 0

\* History: the user's last pause, seek while paused, resume.
NoGesture == [op |-> "none", at |-> 0]

\* The fields the constructors of AudioVisualizerApp and MidiPlayerManager set.
AppConstructed ==
    /\ initialized = FALSE
    /\ isMidiMode = FALSE
    /\ appIsPlaying = FALSE
    /\ mgrIsPlaying = FALSE
    /\ mgrIsPaused = FALSE
    /\ vizMidi = Null
    /\ appLoad = Null
    /\ viaManager = <<>>
    /\ alerted = FALSE
    /\ gesture = NoGesture

\* AudioVisualizerApp as constructed: no visualizer yet, no frame requested.
ViewConstructed ==
    /\ appStarted = FALSE
    /\ visualizers = << >>
    /\ currentModeIndex = 0
    /\ frameArmed = FALSE
    /\ frameCalls = <<>>

\* VideoExporter as constructed, the canvas at the size of the window.
ExporterConstructed ==
    /\ isRecording = FALSE
    /\ recorder = Null
    /\ exportPhase = "idle"
    /\ canvasSize = "small"
    /\ originalSize = "small"
    /\ windowSize = "small"
    /\ btnRecording = FALSE

\* AudioAnalyzer as constructed, at page load.
AnalyzerConstructed ==
    /\ energyHistory = <<>>
    /\ lastBeatTime = 0
    /\ beatClock = 0
    /\ beatTimes = <<>>
    /\ samples = 0

\* The other objects of the page as constructed: no init() call made yet.
PageConstructed ==
    /\ mgrCalls = 0
    /\ mgrImporting = 0
    /\ mgrIniting = 0
    /\ players = 0
    /\ engCalls = 0
    /\ engStarting = 0
    /\ engInitialized = FALSE
    /\ outputs = 0
    /\ ViewConstructed
    /\ ExporterConstructed
    /\ AnalyzerConstructed

InitAnalysis ==
    /\ variant \in AnalysisVariants
    /\ input \in AnalysisFiles
    /\ midi = Null
    /\ notes = <<>>
    /\ channels = << >>
    /\ snap = Null
    /\ PlayerConstructed
    /\ manifest = {}
    /\ EngineConstructed
    /\ AppConstructed
    /\ PageConstructed

\* loadMidiFile: this.midi = new Midi(...); this.processNotes().
LoadMidiFile ==
    /\ midi' = Some(input)
    /\ notes' = ProcessedNotes(input)
    /\ channels' = ProcessedChannels(input)
    /\ snap' = Null
    /\ UNCHANGED <<lVars, idleVars, input, pVars, hostVars, loading, histVars>>

\* A getAnalysis that forgets the notes that ended before the query.
GetAnalysisForgetting(t) ==
    /\ snap' = Some([time |-> t,
                     value |-> IF variant = "handler"
                               THEN HandlerAnalysis(notes, channels, t)
                               ELSE AnalyzerAnalysis(midi, notes, channels, t)])
    /\ notes' = SelectSeq(notes, LAMBDA n : n.endTime >= t)
    /\ UNCHANGED <<lVars, idleVars, input, midi, channels, pVars, hostVars, loading, histVars>>

\* getAnalysis(currentTime)
GetAnalysis(t) ==
    /\ snap' = Some([time |-> t,
                     value |-> IF variant = "handler"
                               THEN HandlerAnalysis(notes, channels, t)
                               ELSE AnalyzerAnalysis(midi, notes, channels, t)])
    /\ UNCHANGED <<lVars, idleVars, input, midi, notes, channels, pVars, hostVars, loading, histVars>>

NextAnalysis ==
    \/ LoadMidiFile
    \/ \E t \in QueryTimes : GetAnalysis(t)

SpecAnalysis == InitAnalysis /\ [][NextAnalysis]_vars

----------------------------------------------------------------------------
(* Playback: the files played, the timers a scheduling pass registers.      *)
(* Here one tick of the clock is the unit of time, for note times as for    *)
(* setTimeout delays (the code converts seconds to milliseconds and back).  *)

MaxNow == 2          \* the clock stops after this many ticks
MaxPending == 1      \* play() calls that may wait for the audio context

\* A melodic track: a note still sounding when the next one starts.
PlayFileA ==
    << [channel |-> 0, program |-> 0,
        notes |-> << MkNote(60, 0, 2, 4), MkNote(64, 1, 1, 4) >>] >>

\* A melodic track and a percussion track (kick 36, snare 38), the tracks
\* not in time order.
PlayFileB ==
    << [channel |-> 0, program |-> 0, notes |-> << MkNote(67, 2, 1, 4) >>],
       [channel |-> PercChannel, program |-> 0,
        notes |-> << MkNote(36, 0, 1, 4), MkNote(38, 1, 1, 2) >>] >>

PlayFiles == { PlayFileA, PlayFileB }

\* The offsets play() and seek() are called with.
StartTimes == { 0, 1, 2 }

Range(s) == { s[k] : k \in DOMAIN s }

\* Midi.duration: the latest end of the last note of a track.
MidiDuration(file) ==
    SetMax({ file[i].notes[Len(file[i].notes)].time
               + file[i].notes[Len(file[i].notes)].duration :
             i \in { j \in 1..Len(file) : file[j].notes # <<>> } })

\* The object _processNotes of WebAudioFontPlayer pushes for a note.
WafNoteObj(note, track) ==
    [note |-> note.midi, name |-> note.name, velocity |-> note.velocity,
     startTime |-> note.time, endTime |-> note.time + note.duration,
     duration |-> note.duration, channel |-> track.channel, program |-> track.program]

\* The object _processNotes of SpessaMidiPlayer pushes for a note.
SpessaNoteObj(note, track) ==
    [note |-> note.midi, name |-> note.name, velocity |-> note.velocity,
     startTime |-> note.time, endTime |-> note.time + note.duration,
     duration |-> note.duration, channel |-> track.channel]

\* this.notes after _processNotes: every track, then sorted.
WafProcessNotes(tracks) ==
    SortByStart(FlatMap(LAMBDA i : [k \in 1..Len(tracks[i].notes) |->
                                       WafNoteObj(tracks[i].notes[k], tracks[i])],
                        Len(tracks)))

SpessaProcessNotes(tracks) ==
    SortByStart(FlatMap(LAMBDA i : [k \in 1..Len(tracks[i].notes) |->
                                       SpessaNoteObj(tracks[i].notes[k], tracks[i])],
                        Len(tracks)))

\* The programs loadMidi preloads, in the order the Set yields them.
RECURSIVE ProgramsOf(_)
ProgramsOf(tracks) ==
    IF tracks = <<>> THEN <<>>
    ELSE LET before == ProgramsOf(SubSeq(tracks, 1, Len(tracks) - 1))
             p == tracks[Len(tracks)].program
         IN IF p \in Range(before) THEN before ELSE Append(before, p)

\* A pending callback: seq is its place in the pass that registered it,
\* kind "on" or "off", note and channel / program / track what the closure
\* captured, delay the delay it was registered with, due the clock value
\* at which it becomes runnable, stale whether a later pass has run since.
Timer(kind, note, channel, track, delay, at) ==
    [seq |-> 0, kind |-> kind, note |-> note, channel |-> channel, track |-> track,
     delay |-> delay, due |-> at + delay, stale |-> FALSE]

\* The ids in the order they are pushed to scheduledEvents.
Numbered(s) == [k \in 1..Len(s) |-> [s[k] EXCEPT !.seq = k]]

\* _scheduleNotes skipping a note that starts exactly at fromTime as well.
WafTimersSkipEqual(ns, fromTime, at) ==
    Numbered(FlatMap(LAMBDA k :
                 IF ns[k].startTime <= fromTime THEN <<>>
                 ELSE << Timer("on", ns[k], ns[k].channel, 0,
                               ns[k].startTime - fromTime, at) >>,
             Len(ns)))

\* WebAudioFontPlayer._scheduleNotes: the loop over this.notes.
WafTimers(ns, fromTime, at) ==
    Numbered(FlatMap(LAMBDA k :
                 IF ns[k].startTime < fromTime THEN <<>>
                 ELSE << Timer("on", ns[k], ns[k].channel, 0,
                               ns[k].startTime - fromTime, at) >>,
             Len(ns)))

\* The two timers SpessaMidiPlayer._scheduleNotes registers per kept note.
SpessaTrackTimers(track, fromTime, at) ==
    FlatMap(LAMBDA k :
                IF track.notes[k].time < fromTime THEN <<>>
                ELSE << Timer("on", track.notes[k], track.channel, 0,
                              track.notes[k].time - fromTime, at),
                        Timer("off", track.notes[k], track.channel, 0,
                              track.notes[k].time + track.notes[k].duration - fromTime, at) >>,
            Len(track.notes))

\* SpessaMidiPlayer._scheduleNotes: the loop over midi.tracks.
SpessaTimers(tracks, fromTime, at) ==
    Numbered(FlatMap(LAMBDA i : SpessaTrackTimers(tracks[i], fromTime, at), Len(tracks)))

\* The events MidiHandler.scheduleAllNotes schedules on the transport for
\* one track; the transport is started at position 0 at the same instant.
HandlerTrackEvents(track, index, fromTime, at) ==
    FlatMap(LAMBDA k :
                IF track.notes[k].time < fromTime THEN <<>>
                ELSE << Timer("on", track.notes[k], track.channel, index,
                              track.notes[k].time - fromTime, at) >>,
            Len(track.notes))

\* MidiHandler.scheduleAllNotes: the loop over midi.tracks.
HandlerEvents(tracks, fromTime, at) ==
    Numbered(FlatMap(LAMBDA i : HandlerTrackEvents(tracks[i], i, fromTime, at), Len(tracks)))

\* clearTimeout skipped: every pending timer survives.
KeepTimeouts(ts, evs) == ts

\* scheduledEvents.forEach(id => clearTimeout(id))
ClearTimeouts(ts, evs) == ts \ Range(evs)

\* Tone.Transport.cancel(): every event of the timeline is removed.
TransportCancel(ts) == {}

\* The timers that outlive a scheduling pass belong to an earlier one.
Outlived(ts) == { [tm EXCEPT !.stale = TRUE] : tm \in ts }

\* The host runs the callbacks of one pass in the order of their delays,
\* and those of equal delay in the order they were registered.
Runnable(tm, ts, clock) ==
    /\ tm.due <= clock
    /\ \A other \in ts :
          other.stale = tm.stale =>
             ~(other.due < tm.due \/ (other.due = tm.due /\ other.seq < tm.seq))

\* cancelAnimationFrame(this.animationFrame) when an id is held.
CancelFrame(frame) == IF frame = "none" THEN "none" ELSE "spent"

\* History: none -> first (a pass) -> cancelled (a pending note-on of that
\* pass is cleared) -> again (a later pass), where it stays.
Cancelling(r, ts) ==
    IF r = "first" /\ \E tm \in ts : tm.kind = "on" THEN "cancelled" ELSE r

Passing(r) == IF r = "none" THEN "first" ELSE IF r = "cancelled" THEN "again" ELSE r

\* History: the note a callback has triggered, and on which voice.
Trigger(tm, voice) == [stale |-> tm.stale, channel |-> tm.channel, voice |-> voice]
----------------------------------------------------------------------------
(* The timer based players: WebAudioFontPlayer and SpessaMidiPlayer.        *)

TimerVariants == { "waf", "spessa" }
PlayVariants == { "waf", "spessa", "handler" }

InitPlay ==
    /\ variant \in PlayVariants
    /\ input = <<>>
    /\ midi = Null
    /\ notes = <<>>
    /\ channels = << >>
    /\ snap = Null
    /\ PlayerConstructed
    /\ manifest = {}
    /\ EngineConstructed
    /\ AppConstructed
    /\ PageConstructed

\* loadMidi(file).  The presets are awaited one after the other and the
\* first failure throws: loaded of them end up in this.instruments.
PlayerLoadMidi(file, loaded) ==
    /\ variant \in TimerVariants
    /\ input' = file
    /\ midi' = Some(file)
    /\ duration' = MidiDuration(file)
    /\ currentTime' = 0
    /\ pauseOffset' = 0
    /\ notes' = IF variant = "waf" THEN WafProcessNotes(file) ELSE SpessaProcessNotes(file)
    /\ IF variant = "waf"
       THEN /\ loaded \in 0..Len(ProgramsOf(file))
            /\ instruments' =
                 [p \in DOMAIN instruments \cup Range(SubSeq(ProgramsOf(file), 1, loaded)) |->
                     "preset"]
       ELSE /\ loaded = 0
            /\ UNCHANGED instruments
    /\ UNCHANGED <<lVars, idleVars, channels, snap, isPlaying, isPaused, startTimestamp,
                   animationFrame, scheduledEvents, hostVars, loading, histVars>>

\* The timers _scheduleNotes(fromTime) registers now, this.notes being ns
\* and this.midi.tracks being tracks.
Registered(ns, tracks, fromTime) ==
    IF variant = "waf" THEN WafTimers(ns, fromTime, now)
    ELSE SpessaTimers(tracks, fromTime, now)

\* play(startTime) from this.stop() on, with this.notes = ns, this.midi =
\* file and this.duration = dur: stop(), the flags, _scheduleNotes and the
\* first updateTime() of _startTimeTracking, whose elapsed time is startTime.
StartPlaybackOf(ns, file, dur, startTime) ==
    LET reg == Registered(ns, file, startTime)
        cur == Min(startTime, dur)
    IN /\ timers' = Outlived(ClearTimeouts(timers, scheduledEvents)) \cup Range(reg)
       /\ scheduledEvents' = reg
       /\ isPaused' = FALSE
       /\ startTimestamp' = now - startTime
       /\ pauseOffset' = startTime
       /\ currentTime' = cur
       /\ isPlaying' = (cur < dur)
       /\ animationFrame' = IF cur < dur THEN "pending" ELSE CancelFrame(animationFrame)
       /\ lastTrigger' = Null
       /\ lastSchedule' = Some([from |-> startTime, file |-> file])
       /\ resched' = Passing(Cancelling(resched, timers))

\* play(startTime) from this.stop() on, for the file that is loaded.
StartPlayback(startTime) == StartPlaybackOf(notes, midi[1], duration, startTime)

\* stop(), leaving currentTime at cur and pauseOffset at off.
StopAt(cur, off) ==
    /\ timers' = ClearTimeouts(timers, scheduledEvents)
    /\ scheduledEvents' = <<>>
    /\ isPlaying' = FALSE
    /\ isPaused' = FALSE
    /\ currentTime' = cur
    /\ pauseOffset' = off
    /\ animationFrame' = CancelFrame(animationFrame)
    /\ lastSchedule' = Null
    /\ resched' = Cancelling(resched, timers)

\* A call of play(startTime) waits in await audioContext.resume().
AwaitResume(startTime) ==
    /\ Len(pendingPlays) < MaxPending
    /\ pendingPlays' = Append(pendingPlays, startTime)

\* play(startTime) of a player.
PlayerPlay(startTime) ==
    IF midi = Null
    THEN UNCHANGED <<pVars, hostVars, histVars>>
    ELSE IF suspended
    THEN /\ AwaitResume(startTime)
         /\ UNCHANGED <<pVars, timers, now, suspended, histVars>>
    ELSE /\ StartPlayback(startTime)
         /\ UNCHANGED <<duration, instruments, now, suspended, pendingPlays>>

\* play(startTime)
Play(startTime) ==
    /\ variant \in TimerVariants
    /\ PlayerPlay(startTime)
    /\ UNCHANGED <<lVars, idleVars, input, aVars, loading>>

\* The rest of a play() whose await audioContext.resume() has resolved.
PlayResumed ==
    /\ variant \in TimerVariants
    /\ pendingPlays # <<>>
    /\ suspended' = FALSE
    /\ pendingPlays' = Tail(pendingPlays)
    /\ StartPlayback(Head(pendingPlays))
    /\ UNCHANGED <<lVars, idleVars, input, aVars, duration, instruments, now, loading>>

\* A pause() that marks the player paused and leaves isPlaying set.
PlayerPauseStillPlaying ==
    /\ IF ~isPlaying
       THEN UNCHANGED <<pVars, timers, lastSchedule, resched>>
       ELSE /\ timers' = ClearTimeouts(timers, scheduledEvents)
            /\ scheduledEvents' = <<>>
            /\ isPaused' = TRUE
            /\ pauseOffset' = currentTime
            /\ animationFrame' = CancelFrame(animationFrame)
            /\ lastSchedule' = Null
            /\ resched' = Cancelling(resched, timers)
            /\ UNCHANGED <<isPlaying, currentTime, duration, startTimestamp, instruments>>
    /\ UNCHANGED <<now, suspended, pendingPlays, lastTrigger>>

\* pause() of a player.
PlayerPause ==
    /\ IF ~isPlaying
       THEN UNCHANGED <<pVars, timers, lastSchedule, resched>>
       ELSE /\ timers' = ClearTimeouts(timers, scheduledEvents)
            /\ scheduledEvents' = <<>>
            /\ isPaused' = TRUE
            /\ isPlaying' = FALSE
            /\ pauseOffset' = currentTime
            /\ animationFrame' = CancelFrame(animationFrame)
            /\ lastSchedule' = Null
            /\ resched' = Cancelling(resched, timers)
            /\ UNCHANGED <<currentTime, duration, startTimestamp, instruments>>
    /\ UNCHANGED <<now, suspended, pendingPlays, lastTrigger>>

\* pause()
Pause ==
    /\ variant \in TimerVariants
    /\ PlayerPause
    /\ UNCHANGED <<lVars, idleVars, input, aVars, loading>>

\* resume() of a player: play(this.pauseOffset) when paused.
PlayerResume ==
    IF ~isPaused
    THEN UNCHANGED <<pVars, hostVars, histVars>>
    ELSE IF suspended
    THEN /\ AwaitResume(pauseOffset)
         /\ UNCHANGED <<pVars, timers, now, suspended, histVars>>
    ELSE /\ StartPlayback(pauseOffset)
         /\ UNCHANGED <<duration, instruments, now, suspended, pendingPlays>>

\* resume()
Resume ==
    /\ variant \in TimerVariants
    /\ PlayerResume
    /\ UNCHANGED <<lVars, idleVars, input, aVars, loading>>

\* stop() of a player.
PlayerStop ==
    /\ StopAt(0, 0)
    /\ UNCHANGED <<duration, startTimestamp, instruments, now, suspended, pendingPlays,
                   lastTrigger>>

\* stop()
Stop ==
    /\ variant \in TimerVariants
    /\ PlayerStop
    /\ UNCHANGED <<lVars, idleVars, input, aVars, loading>>

\* seek(time) of a player: stop(), the two offsets, and play(time) when it
\* was playing (play() stops once more, which changes nothing further).
PlayerSeek(time) ==
    IF ~isPlaying
    THEN /\ StopAt(time, time)
         /\ UNCHANGED <<duration, startTimestamp, instruments, now, suspended,
                        pendingPlays, lastTrigger>>
    ELSE IF suspended
    THEN /\ StopAt(time, time)
         /\ AwaitResume(time)
         /\ UNCHANGED <<duration, startTimestamp, instruments, now, suspended,
                        lastTrigger>>
    ELSE /\ StartPlayback(time)
         /\ UNCHANGED <<duration, instruments, now, suspended, pendingPlays>>

\* seek(time)
Seek(time) ==
    /\ variant \in TimerVariants
    /\ PlayerSeek(time)
    /\ UNCHANGED <<lVars, idleVars, input, aVars, loading>>

\* What a note-on callback of a timer player plays: the preset inst_<program>
\* when it is loaded (WebAudioFont), synth.noteOn on the channel (Spessa).
TimerVoice(tm) ==
    IF variant = "waf"
    THEN IF tm.note.program \in DOMAIN instruments
         THEN [kind |-> "preset", program |-> tm.note.program]
         ELSE [kind |-> "none"]
    ELSE [kind |-> "synth", channel |-> tm.channel]

\* A setTimeout callback runs: nothing when playback is off, the note
\* otherwise (a note-off callback triggers no note).
TimerFires(tm) ==
    /\ variant \in TimerVariants
    /\ tm \in timers
    /\ Runnable(tm, timers, now)
    /\ timers' = timers \ {tm}
    /\ IF isPlaying /\ tm.kind = "on"
       THEN lastTrigger' = Some(Trigger(tm, TimerVoice(tm)))
       ELSE UNCHANGED lastTrigger
    /\ UNCHANGED <<lVars, idleVars, input, aVars, pVars, now, suspended, pendingPlays, loading,
                   lastSchedule, resched>>

\* updateTime() run by requestAnimationFrame.
FrameFires ==
    /\ variant \in TimerVariants
    /\ animationFrame = "pending"
    /\ IF ~isPlaying
       THEN /\ animationFrame' = "spent"
            /\ UNCHANGED <<isPlaying, currentTime>>
       ELSE LET cur == Min(now - startTimestamp, duration)
            IN /\ currentTime' = cur
               /\ isPlaying' = (cur < duration)
               /\ animationFrame' = IF cur < duration THEN "pending" ELSE "spent"
    /\ UNCHANGED <<lVars, idleVars, input, aVars, isPaused, duration, pauseOffset, startTimestamp,
                   scheduledEvents, instruments, hostVars, loading, histVars>>

\* The clock advances.
Tick ==
    /\ now < MaxNow
    /\ now' = now + 1
    /\ UNCHANGED <<lVars, idleVars, input, aVars, pVars, timers, suspended, pendingPlays,
                   loading, histVars>>

\* The browser suspends the audio context.
ContextSuspends ==
    /\ variant \in TimerVariants
    /\ midi # Null
    /\ ~suspended
    /\ suspended' = TRUE
    /\ UNCHANGED <<lVars, idleVars, input, aVars, pVars, timers, now, pendingPlays,
                   loading, histVars>>
----------------------------------------------------------------------------
(* The Tone.Transport based MidiHandler, driven through MidiPlayerManager.  *)
(* Its startTime is held in startTimestamp and its pauseTime in             *)
(* pauseOffset.  An event scheduled at transport time d while the           *)
(* transport is started at the same instant becomes runnable d later.       *)

\* The tracks loadInstruments asks a soundfont for.
MelodicTracks(tracks) ==
    { i \in 1..Len(tracks) : tracks[i].notes # <<>> /\ tracks[i].channel # PercChannel }

\* cleanInstrumentName(track.instrument.name): the General MIDI name of the
\* track's program in lower case with underscores, for the programs of the
\* files above.
CleanInstrumentName(program) ==
    CASE program = 0 -> "acoustic_grand_piano"
      [] program = 1 -> "bright_acoustic_piano"
      [] program = 40 -> "violin"
      [] program = 41 -> "viola"
      [] program = 42 -> "cello"

\* The Soundfont.instrument promises loadInstruments() creates: one per
\* melodic track with notes, for the instrument named after its program.
SoundfontPromises(tracks) ==
    { [index |-> i, name |-> CleanInstrumentName(tracks[i].program)] :
        i \in MelodicTracks(tracks) }

\* getCurrentTime()
HandlerCurrentTime == IF ~isPlaying THEN pauseOffset ELSE now - startTimestamp

\* The sets of synths left undisposed once this.drumSynths is disposed.
Disposed == IF drumSynths THEN undisposed - 1 ELSE undisposed

\* stop(): Transport.stop(), Transport.cancel(), scheduledEvents = [], the
\* synths of this.drumSynths disposed and this.drumSynths = null.
HandlerStopped ==
    /\ isPlaying' = FALSE
    /\ timers' = TransportCancel(timers)
    /\ scheduledEvents' = <<>>
    /\ lastSchedule' = Null
    /\ resched' = Cancelling(resched, timers)
    /\ drumSynths' = FALSE
    /\ undisposed' = Disposed
    /\ transportStart' = Null

\* play(startTime): stop(), and with a file the flags, scheduleAllNotes and
\* Transport.start().
HandlerPlay(startTime) ==
    /\ variant = "handler"
    /\ IF midi = Null
       THEN /\ HandlerStopped
            /\ UNCHANGED <<pauseOffset, startTimestamp, lastTrigger>>
       ELSE LET reg == HandlerEvents(midi[1], startTime, now)
            IN /\ isPlaying' = TRUE
               /\ pauseOffset' = startTime
               /\ startTimestamp' = now - startTime
               /\ timers' = Outlived(TransportCancel(timers)) \cup Range(reg)
               /\ scheduledEvents' = reg
               /\ lastTrigger' = Null
               /\ lastSchedule' = Some([from |-> startTime, file |-> midi[1]])
               /\ resched' = Passing(Cancelling(resched, timers))
               /\ drumSynths' = TRUE
               /\ undisposed' = Disposed + 1
               /\ transportStart' = Some(now)
    /\ UNCHANGED <<engVars, appVars, idleVars, input, aVars, isPaused, currentTime, duration,
                   animationFrame,
                   instruments, now, suspended, pendingPlays, loading>>

\* pause(): pauseTime = getCurrentTime(), then stop().
HandlerPause ==
    /\ variant = "handler"
    /\ IF ~isPlaying
       THEN UNCHANGED <<isPlaying, pauseOffset, timers, scheduledEvents, lastSchedule,
                        resched, synthVars>>
       ELSE /\ pauseOffset' = HandlerCurrentTime
            /\ HandlerStopped
    /\ UNCHANGED <<engVars, appVars, idleVars, input, aVars, isPaused, currentTime, duration, startTimestamp,
                   animationFrame, instruments, now, suspended, pendingPlays, loading,
                   lastTrigger>>

\* stop()
HandlerStop ==
    /\ variant = "handler"
    /\ HandlerStopped
    /\ UNCHANGED <<engVars, appVars, idleVars, input, aVars, isPaused, currentTime, duration,
                   pauseOffset,
                   startTimestamp, animationFrame, instruments, now, suspended,
                   pendingPlays, loading, lastTrigger>>

\* MidiPlayerManager.resume() for a player without resume():
\* player.play(this.getCurrentTime()).
ManagerResume ==
    /\ variant = "handler"
    /\ HandlerPlay(HandlerCurrentTime)

\* MidiPlayerManager.seek(time) for a player without seek():
\* player.stop(); player.play(time).
ManagerSeek(time) ==
    /\ variant = "handler"
    /\ HandlerPlay(time)

\* loadMidiFile(file): stop(), instruments = {}, the file, processNotes()
\* and loadInstruments(), which is not awaited.
HandlerLoadMidiFile(file) ==
    /\ variant = "handler"
    /\ HandlerStopped
    /\ instruments' = << >>
    /\ input' = file
    /\ midi' = Some(file)
    /\ notes' = ProcessedNotes(file)
    /\ channels' = ProcessedChannels(file)
    /\ loading' = loading \cup SoundfontPromises(file)
    /\ UNCHANGED <<engVars, appVars, idleVars, snap, isPaused, currentTime, duration, pauseOffset,
                   startTimestamp, animationFrame, now, suspended, pendingPlays,
                   lastTrigger>>

\* A Soundfont.instrument promise settles: this.instruments[index] becomes
\* the instrument it fetched, or the marker 'fallback_synth' when it was
\* rejected, whichever file is loaded by then.
SoundfontSettles(promise, ok) ==
    /\ variant = "handler"
    /\ promise \in loading
    /\ loading' = loading \ {promise}
    /\ instruments' =
         [i \in DOMAIN instruments \cup {promise.index} |->
             IF i = promise.index THEN (IF ok THEN promise.name ELSE "fallback_synth")
             ELSE instruments[i]]
    /\ UNCHANGED <<lVars, idleVars, input, aVars, isPlaying, isPaused, currentTime, duration,
                   pauseOffset, startTimestamp, animationFrame, scheduledEvents,
                   hostVars, histVars>>

\* The synths of this.drumSynths play only while the set exists.
SynthVoice(kind) == IF drumSynths THEN [kind |-> kind] ELSE [kind |-> "none"]

\* What the callback of a transport event plays; threw: instrument.play
\* raised an exception.
HandlerVoice(tm, threw) ==
    IF tm.channel = PercChannel
    THEN IF tm.note.midi = 35 \/ tm.note.midi = 36 THEN SynthVoice("drum")
         ELSE IF tm.note.midi >= 42 /\ tm.note.midi <= 46 THEN SynthVoice("hat")
         ELSE [kind |-> "none"]
    ELSE IF tm.track \notin DOMAIN instruments \/ instruments[tm.track] = "fallback_synth"
         THEN SynthVoice("fallback")
         ELSE IF threw THEN SynthVoice("fallback")
              ELSE [kind |-> "instrument", track |-> tm.track, name |-> instruments[tm.track]]

\* The transport reaches an event and runs its callback.
TransportEventFires(tm, threw) ==
    /\ variant = "handler"
    /\ tm \in timers
    /\ Runnable(tm, timers, now)
    /\ threw => (tm.track \in DOMAIN instruments /\ instruments[tm.track] # "fallback_synth"
                 /\ tm.channel # PercChannel)
    /\ timers' = timers \ {tm}
    /\ lastTrigger' = Some(Trigger(tm, HandlerVoice(tm, threw)))
    /\ UNCHANGED <<lVars, idleVars, input, aVars, pVars, now, suspended, pendingPlays, loading,
                   lastSchedule, resched>>

NextPlay ==
    \/ \E file \in PlayFiles : \E loaded \in 0..Len(ProgramsOf(file)) :
          PlayerLoadMidi(file, loaded)
    \/ \E s \in StartTimes : Play(s)
    \/ PlayResumed
    \/ Pause
    \/ Resume
    \/ Stop
    \/ \E t \in StartTimes : Seek(t)
    \/ \E tm \in timers : TimerFires(tm)
    \/ FrameFires
    \/ Tick
    \/ ContextSuspends
    \/ \E file \in PlayFiles : HandlerLoadMidiFile(file)
    \/ \E s \in StartTimes : HandlerPlay(s)
    \/ HandlerPause
    \/ HandlerStop
    \/ ManagerResume
    \/ \E t \in StartTimes : ManagerSeek(t)
    \/ \E i \in loading : \E ok \in BOOLEAN : SoundfontSettles(i, ok)
    \/ \E tm \in timers : \E threw \in BOOLEAN : TransportEventFires(tm, threw)

SpecPlay == InitPlay /\ [][NextPlay]_vars

----------------------------------------------------------------------------
(* The application (AudioVisualizerApp of public/app.js) in front of the    *)
(* MidiPlayerManager facade and a timer based player.  An async function    *)
(* runs up to its first await that has to wait for the host; what follows   *)
(* the await is a step of its own.  Continuations that only wait for a      *)
(* promise already settled run before any other event and belong to the     *)
(* step that settles it.  One file selection is in progress at a time.      *)

InitApp ==
    /\ variant \in TimerVariants
    /\ input = <<>>
    /\ midi = Null
    /\ notes = <<>>
    /\ channels = << >>
    /\ snap = Null
    /\ PlayerConstructed
    /\ manifest = {}
    /\ EngineConstructed
    /\ AppConstructed
    /\ PageConstructed

\* The MIDI files the user selects.
AppFiles == { PlayFileA }

\* A selection: parsed is what new Midi(arrayBuffer) returns for the file,
\* ok whether it returns at all, loaded how many presets load.
Selections ==
    { [parsed |-> file, ok |-> ok, loaded |-> loaded] :
        file \in AppFiles, ok \in BOOLEAN, loaded \in 0..1 }

\* The positions the progress bar is moved to.
SeekTimes == { 0, 1 }

\* processFile(file) for a .mid file, up to await this.midiPlayer.init().
ProcessFile(sel) ==
    /\ variant \in TimerVariants
    /\ appLoad = Null
    /\ sel.loaded <= Len(ProgramsOf(sel.parsed))
    /\ variant = "spessa" => sel.loaded = 0
    /\ isMidiMode' = TRUE
    /\ appLoad' = Some(sel)
    /\ alerted' = FALSE
    /\ gesture' = NoGesture
    /\ UNCHANGED <<idleVars, input, aVars, pVars, hostVars, loading, histVars,
                   engVars, synthVars, initialized, appIsPlaying, mgrIsPlaying, mgrIsPaused,
                   vizMidi, viaManager>>

\* MidiPlayerManager.init() creates the player and completes.
ManagerInit ==
    /\ variant \in TimerVariants
    /\ appLoad # Null
    /\ ~initialized
    /\ initialized' = TRUE
    /\ UNCHANGED <<idleVars, input, aVars, pVars, hostVars, loading, histVars,
                   engVars, synthVars, isMidiMode, appIsPlaying, mgrIsPlaying, mgrIsPaused,
                   vizMidi, appLoad, viaManager, alerted, gesture>>

\* this.instruments after loadMidi has loaded the first `loaded` presets.
LoadedInstruments(file, loaded) ==
    IF variant = "waf"
    THEN [p \in DOMAIN instruments \cup Range(SubSeq(ProgramsOf(file), 1, loaded)) |-> "preset"]
    ELSE instruments

\* new Midi(arrayBuffer) throws inside player.loadMidi: the manager alerts
\* and rethrows, processFile ends there.
LoadMidiFails ==
    /\ variant \in TimerVariants
    /\ appLoad # Null
    /\ initialized
    /\ ~appLoad[1].ok
    /\ appLoad' = Null
    /\ alerted' = TRUE
    /\ UNCHANGED <<idleVars, input, aVars, pVars, hostVars, loading, histVars,
                   engVars, synthVars, initialized, isMidiMode, appIsPlaying, mgrIsPlaying,
                   mgrIsPaused, vizMidi, viaManager, gesture>>

\* player.loadMidi parses the file but a preset fails to load
\* (WebAudioFontPlayer): the player holds the file, the manager alerts and
\* rethrows.
LoadInstrumentFails ==
    /\ variant = "waf"
    /\ appLoad # Null
    /\ initialized
    /\ appLoad[1].ok
    /\ appLoad[1].loaded < Len(ProgramsOf(appLoad[1].parsed))
    /\ LET file == appLoad[1].parsed
       IN /\ input' = file
          /\ midi' = Some(file)
          /\ duration' = MidiDuration(file)
          /\ currentTime' = 0
          /\ pauseOffset' = 0
          /\ notes' = WafProcessNotes(file)
          /\ instruments' = LoadedInstruments(file, appLoad[1].loaded)
    /\ appLoad' = Null
    /\ alerted' = TRUE
    /\ UNCHANGED <<idleVars, channels, snap, isPlaying, isPaused, startTimestamp,
                   animationFrame, scheduledEvents, hostVars, loading, histVars,
                   engVars, synthVars, initialized, isMidiMode, appIsPlaying, mgrIsPlaying,
                   mgrIsPaused, vizMidi, viaManager, gesture>>

\* player.loadMidi resolves; processFile hands the file to its MidiHandler
\* and calls startPlayback(): midiPlayer.play(), this.isPlaying = true.
LoadMidiSucceeds ==
    /\ variant \in TimerVariants
    /\ appLoad # Null
    /\ initialized
    /\ appLoad[1].ok
    /\ variant = "waf" => appLoad[1].loaded = Len(ProgramsOf(appLoad[1].parsed))
    /\ LET file == appLoad[1].parsed
           ns == IF variant = "waf" THEN WafProcessNotes(file) ELSE SpessaProcessNotes(file)
           dur == MidiDuration(file)
       IN /\ input' = file
          /\ midi' = Some(file)
          /\ duration' = dur
          /\ notes' = ns
          /\ instruments' = LoadedInstruments(file, appLoad[1].loaded)
          /\ vizMidi' = Some(file)
          /\ IF suspended
             THEN /\ AwaitResume(0)
                  /\ viaManager' = Append(viaManager, TRUE)
                  /\ currentTime' = 0
                  /\ pauseOffset' = 0
                  /\ UNCHANGED <<isPlaying, isPaused, startTimestamp, animationFrame,
                                 scheduledEvents, timers, histVars, mgrIsPlaying,
                                 mgrIsPaused>>
             ELSE /\ StartPlaybackOf(ns, file, dur, 0)
                  /\ mgrIsPlaying' = TRUE
                  /\ mgrIsPaused' = FALSE
                  /\ UNCHANGED <<pendingPlays, viaManager>>
    /\ appLoad' = Null
    /\ appIsPlaying' = TRUE
    /\ gesture' = NoGesture
    /\ UNCHANGED <<idleVars, channels, snap, now, suspended, loading,
                   engVars, synthVars, initialized, isMidiMode, alerted>>

\* The rest of a play() whose await audioContext.resume() has resolved,
\* and of the MidiPlayerManager.play() that awaited it, if any.
AppPlayResumed ==
    /\ variant \in TimerVariants
    /\ pendingPlays # <<>>
    /\ suspended' = FALSE
    /\ pendingPlays' = Tail(pendingPlays)
    /\ viaManager' = Tail(viaManager)
    /\ StartPlayback(Head(pendingPlays))
    /\ IF Head(viaManager)
       THEN mgrIsPlaying' = TRUE /\ mgrIsPaused' = FALSE
       ELSE UNCHANGED <<mgrIsPlaying, mgrIsPaused>>
    /\ UNCHANGED <<idleVars, input, aVars, duration, instruments, now, loading,
                   engVars, synthVars, initialized, isMidiMode, appIsPlaying, vizMidi,
                   appLoad, alerted, gesture>>

\* togglePlayback(): midiPlayer.pause() or midiPlayer.resume() in MIDI mode
\* (each returns at once while the manager has no player), the audio
\* analyzer otherwise; this.isPlaying = !this.isPlaying.
TogglePlayback ==
    /\ variant \in TimerVariants
    /\ IF isMidiMode /\ initialized
       THEN IF appIsPlaying
            THEN /\ PlayerPause
                 /\ mgrIsPlaying' = FALSE
                 /\ mgrIsPaused' = TRUE
                 /\ UNCHANGED viaManager
                 /\ gesture' = IF isPlaying THEN [op |-> "paused", at |-> currentTime]
                               ELSE NoGesture
            ELSE /\ PlayerResume
                 /\ mgrIsPlaying' = TRUE
                 /\ mgrIsPaused' = FALSE
                 /\ viaManager' = IF isPaused /\ suspended THEN Append(viaManager, FALSE)
                                  ELSE viaManager
                 /\ gesture' = IF gesture.op = "sought"
                               THEN [op |-> "resumed", at |-> gesture.at]
                               ELSE NoGesture
       ELSE UNCHANGED <<pVars, hostVars, histVars, mgrIsPlaying, mgrIsPaused, viaManager,
                        gesture>>
    /\ appIsPlaying' = ~appIsPlaying
    /\ UNCHANGED <<idleVars, input, aVars, loading,
                   engVars, synthVars, initialized, isMidiMode, vizMidi, appLoad, alerted>>

\* The progress bar in MIDI mode: midiPlayer.seek(percent * duration).
ProgressSeek(time) ==
    /\ variant \in TimerVariants
    /\ isMidiMode
    /\ initialized
    /\ time <= duration
    /\ PlayerSeek(time)
    /\ viaManager' = IF isPlaying /\ suspended THEN Append(viaManager, FALSE) ELSE viaManager
    /\ gesture' = IF gesture.op \in { "paused", "sought" } /\ ~isPlaying
                  THEN [op |-> "sought", at |-> time]
                  ELSE NoGesture
    /\ UNCHANGED <<idleVars, input, aVars, loading,
                   engVars, synthVars, initialized, isMidiMode, appIsPlaying, mgrIsPlaying,
                   mgrIsPaused, vizMidi, appLoad, alerted>>

\* The restart button: midiPlayer.stop(); midiPlayer.play(0) in MIDI mode;
\* this.isPlaying = true.
Restart ==
    /\ variant \in TimerVariants
    /\ IF isMidiMode /\ initialized
       THEN IF midi = Null
            THEN /\ PlayerStop
                 /\ mgrIsPlaying' = TRUE
                 /\ mgrIsPaused' = FALSE
                 /\ UNCHANGED viaManager
            ELSE IF suspended
            THEN /\ StopAt(0, 0)
                 /\ AwaitResume(0)
                 /\ viaManager' = Append(viaManager, TRUE)
                 /\ mgrIsPlaying' = FALSE
                 /\ mgrIsPaused' = FALSE
                 /\ UNCHANGED <<duration, startTimestamp, instruments, now, suspended,
                                lastTrigger>>
            ELSE /\ StartPlayback(0)
                 /\ mgrIsPlaying' = TRUE
                 /\ mgrIsPaused' = FALSE
                 /\ UNCHANGED <<duration, instruments, now, suspended, pendingPlays,
                                viaManager>>
       ELSE UNCHANGED <<pVars, hostVars, histVars, mgrIsPlaying, mgrIsPaused, viaManager>>
    /\ appIsPlaying' = TRUE
    /\ gesture' = NoGesture
    /\ UNCHANGED <<idleVars, input, aVars, loading,
                   engVars, synthVars, initialized, isMidiMode, vizMidi, appLoad, alerted>>

NextApp ==
    \/ \E sel \in Selections : ProcessFile(sel)
    \/ ManagerInit
    \/ LoadMidiFails
    \/ LoadInstrumentFails
    \/ LoadMidiSucceeds
    \/ AppPlayResumed
    \/ TogglePlayback
    \/ \E t \in SeekTimes : ProgressSeek(t)
    \/ Restart
    \/ \E tm \in timers : TimerFires(tm)
    \/ FrameFires
    \/ Tick
    \/ ContextSuspends

SpecApp == InitApp /\ [][NextApp]_vars

----------------------------------------------------------------------------
(* Instrument loading: the per-track MidiEngine ("engineTrack"), the        *)
(* library-cached MidiEngine ("engineCached") and the sampler MidiHandler   *)
(* ("sampler").  The manifest is the set of libraries whose list of sample  *)
(* files is not empty.                                                      *)

MaxLoads == 2        \* files loaded one after the other

LoadVariants == { "engineTrack", "engineCached", "sampler" }
EngineVariants == { "engineTrack", "engineCached" }

LoadManifests == { { "piano", "violin" }, { "piano" }, {} }

\* Two piano tracks and a percussion track.
LoadFilePianos ==
    << [channel |-> 0, program |-> 0, notes |-> << MkNote(60, 0, 1, 4) >>],
       [channel |-> 1, program |-> 1, notes |-> << MkNote(64, 0, 1, 4) >>],
       [channel |-> PercChannel, program |-> 0, notes |-> << MkNote(36, 0, 1, 4) >>] >>

\* Two violin tracks, a track without notes, a cello and a piano track.
LoadFileStrings ==
    << [channel |-> 0, program |-> 40, notes |-> << MkNote(67, 0, 1, 4) >>],
       [channel |-> 1, program |-> 0, notes |-> <<>>],
       [channel |-> 2, program |-> 41, notes |-> << MkNote(72, 0, 1, 4) >>],
       [channel |-> 3, program |-> 42, notes |-> << MkNote(48, 0, 1, 4) >>],
       [channel |-> 4, program |-> 0, notes |-> << MkNote(60, 1, 1, 4) >>] >>

LoadFiles == { LoadFilePianos, LoadFileStrings }

\* GM_TO_SAMPLE[prg] || 'piano'
GmToSample(prg) ==
    CASE prg \in 0..8 -> "piano"
      [] prg \in { 11, 12, 13, 114 } -> "xylophone"
      [] prg = 24 -> "guitar-nylon"
      [] prg = 25 -> "guitar-acoustic"
      [] prg \in { 26, 27 } -> "guitar-electric"
      [] prg \in { 32, 33, 34 } -> "bass-electric"
      [] prg \in { 40, 41, 48 } -> "violin"
      [] prg \in { 42, 49, 50, 51 } -> "cello"
      [] prg = 43 -> "contrabass"
      [] prg \in { 56, 61 } -> "trumpet"
      [] prg = 57 -> "trombone"
      [] prg = 58 -> "tuba"
      [] prg = 60 -> "french-horn"
      [] prg = 68 -> "oboe"
      [] prg = 70 -> "bassoon"
      [] prg = 71 -> "clarinet"
      [] prg = 73 -> "flute"
      [] prg = 104 -> "harp"
      [] OTHER -> "piano"

\* getLibraryName(prg, manifest), and the same fallback in the sampler
\* MidiHandler: the mapped library when the manifest has samples for it,
\* 'piano' otherwise.
GetLibraryName(prg, man) == IF GmToSample(prg) \in man THEN GmToSample(prg) ELSE "piano"

\* The library of each note-bearing non-percussion track, in track order.
TrackLibs(tracks, man) ==
    FlatMap(LAMBDA i : IF tracks[i].notes = <<>> \/ tracks[i].channel = PercChannel
                       THEN <<>>
                       ELSE << [key |-> i, lib |-> GetLibraryName(tracks[i].program, man)] >>,
            Len(tracks))

RECURSIVE DistinctLibs(_)
\* libsToLoad: the Set of those libraries, in insertion order, keyed by name.
DistinctLibs(tl) ==
    IF tl = <<>> THEN <<>>
    ELSE LET before == DistinctLibs(SubSeq(tl, 1, Len(tl) - 1))
             lib == tl[Len(tl)].lib
         IN IF \E k \in 1..Len(before) : before[k].lib = lib THEN before
            ELSE Append(before, [key |-> lib, lib |-> lib])

\* The samplers a call of loadInstruments constructs, as <<key, library>>
\* in the order of construction: one per track in the per-track engine and
\* in the sampler handler, one per library not yet cached in the other.
NewSamplers(v, tracks, man, cached) ==
    IF v = "engineCached"
    THEN SelectSeq(DistinctLibs(TrackLibs(tracks, man)), LAMBDA e : e.key \notin cached)
    ELSE TrackLibs(tracks, man)

\* manifest[lib].forEach (availableFiles.length in the sampler handler)
\* raises a TypeError when the manifest has no entry for the library.
LoadThrows(v, tracks, man, cached) ==
    \E k \in 1..Len(NewSamplers(v, tracks, man, cached)) :
        NewSamplers(v, tracks, man, cached)[k].lib \notin man

\* The promises loadInstruments awaits: all of them in the engines, the
\* first three in the sampler handler (promises.slice(0, 3)).
AwaitedKeys(v, new) ==
    { new[k].key : k \in { j \in 1..Len(new) : v # "sampler" \/ j <= 3 } }

InitLoad ==
    /\ variant \in LoadVariants
    /\ manifest \in LoadManifests
    /\ input = <<>>
    /\ midi = Null
    /\ notes = <<>>
    /\ channels = << >>
    /\ snap = Null
    /\ PlayerConstructed
    /\ EngineConstructed
    /\ AppConstructed
    /\ PageConstructed

\* The samplers constructed before the first library without a manifest
\* entry is met (all of them when there is none).
Constructed(new, man) ==
    LET bad == { k \in 1..Len(new) : new[k].lib \notin man }
    IN IF bad = {} THEN new
       ELSE SubSeq(new, 1, (CHOOSE k \in bad : \A j \in bad : k <= j) - 1)

\* loadMidi(file) / loadMidiFile(file) up to the await of the sampler
\* promises inside loadInstruments.  The sampler handler first stops and
\* forgets its samplers; the engines keep theirs and dispose their parts.
LoadMidi(file) ==
    /\ variant \in LoadVariants
    /\ loadPhase # "waiting"
    /\ loads < MaxLoads
    /\ LET base == IF variant = "sampler" THEN << >> ELSE samplers
           new == NewSamplers(variant, file, manifest, DOMAIN base)
           made == Constructed(new, manifest)
           madeKeys == { made[k].key : k \in 1..Len(made) }
           libOf(key) == made[CHOOSE k \in 1..Len(made) : made[k].key = key].lib
       IN /\ samplers' =
               [key \in DOMAIN base \cup madeKeys |->
                   IF key \in madeKeys
                   THEN [lib |-> libOf(key), loaded |-> FALSE, gen |-> loads + 1]
                   ELSE base[key]]
          /\ createdNow' = Len(made)
          /\ IF LoadThrows(variant, file, manifest, DOMAIN base)
             THEN loadPhase' = "threw" /\ awaited' = {}
             ELSE loadPhase' = "waiting" /\ awaited' = AwaitedKeys(variant, made)
    /\ input' = file
    /\ midi' = Some(file)
    /\ loads' = loads + 1
    /\ parts' = {}
    /\ IF variant = "sampler"
       THEN /\ notes' = ProcessedNotes(file)
            /\ channels' = ProcessedChannels(file)
            /\ HandlerStopped
       ELSE UNCHANGED <<notes, channels, isPlaying, timers, scheduledEvents, lastSchedule,
                        resched, synthVars>>
    /\ UNCHANGED <<idleVars, snap, isPaused, currentTime, duration, pauseOffset,
                   startTimestamp, animationFrame, instruments, now, suspended,
                   pendingPlays, loading, lastTrigger, manifest, trackSamplers, polls,
                   appVars>>

\* A Tone.Sampler has fetched and decoded its samples: sampler.loaded.
SamplerLoaded(key) ==
    /\ variant \in LoadVariants
    /\ key \in DOMAIN samplers
    /\ ~samplers[key].loaded
    /\ samplers' = [samplers EXCEPT ![key].loaded = TRUE]
    /\ UNCHANGED <<idleVars, input, aVars, pVars, hostVars, loading, histVars, manifest,
                   trackSamplers, parts, loadPhase, awaited, loads, createdNow, polls, appVars, synthVars>>

\* The polling check of a promise finds the sampler not loaded and re-arms
\* itself: setTimeout(check, 100) / setTimeout(checkLoaded, 50).
PollRearms(key) ==
    /\ variant \in LoadVariants
    /\ loadPhase = "waiting"
    /\ key \in awaited
    /\ ~samplers[key].loaded
    /\ polls' = 1 - polls
    /\ UNCHANGED <<idleVars, input, aVars, pVars, hostVars, loading, histVars, manifest,
                   samplers, trackSamplers, parts, loadPhase, awaited, loads, createdNow, appVars, synthVars>>

\* The polling check of a promise finds sampler.loaded and resolves it.
PollResolves(key) ==
    /\ variant \in LoadVariants
    /\ loadPhase = "waiting"
    /\ key \in awaited
    /\ samplers[key].loaded
    /\ awaited' = awaited \ {key}
    /\ UNCHANGED <<idleVars, input, aVars, pVars, hostVars, loading, histVars, manifest,
                   samplers, trackSamplers, parts, loadPhase, loads, createdNow, polls, appVars, synthVars>>

\* The 5 s / 10 s timer of a promise of a MidiEngine resolves it.
TimeoutFires(key) ==
    /\ variant \in EngineVariants
    /\ loadPhase = "waiting"
    /\ key \in awaited
    /\ awaited' = awaited \ {key}
    /\ UNCHANGED <<idleVars, input, aVars, pVars, hostVars, loading, histVars, manifest,
                   samplers, trackSamplers, parts, loadPhase, loads, createdNow, polls, appVars, synthVars>>

\* this.trackSamplers after the mapping loop of the cached engine: every
\* track of the file, percussion included, gets the sampler of its library
\* (undefined when there is none).
MappedTracks(tracks, man, sams, old) ==
    [i \in { j \in DOMAIN old \cup (1..Len(tracks)) :
               j \in 1..Len(tracks) => GetLibraryName(tracks[j].program, man) \in DOMAIN sams } |->
        IF i \in 1..Len(tracks) THEN GetLibraryName(tracks[i].program, man) ELSE old[i]]

\* The Tone.Parts scheduleNotes creates: one per track with notes and a
\* sampler, bound to the key of that sampler.
EngineParts(tracks, bound) ==
    { [track |-> i, sampler |-> bound[i]] :
        i \in { j \in 1..Len(tracks) : tracks[j].notes # <<>> /\ j \in DOMAIN bound } }

\* Promise.all has resolved: loadInstruments returns; the cached engine
\* maps the tracks, both engines then run scheduleNotes().
LoadReturns ==
    /\ variant \in LoadVariants
    /\ loadPhase = "waiting"
    /\ awaited = {}
    /\ loadPhase' = "done"
    /\ trackSamplers' =
         IF variant = "engineCached"
         THEN MappedTracks(midi[1], manifest, samplers, trackSamplers)
         ELSE trackSamplers
    /\ parts' =
         IF variant = "engineCached" THEN EngineParts(midi[1], trackSamplers')
         ELSE IF variant = "engineTrack"
              THEN EngineParts(midi[1], [i \in DOMAIN samplers |-> i])
              ELSE parts
    /\ UNCHANGED <<idleVars, input, aVars, pVars, hostVars, loading, histVars, manifest,
                   samplers, awaited, loads, createdNow, polls, appVars, synthVars>>

PollRearmsSome == \E key \in awaited : PollRearms(key)
PollResolvesSome == \E key \in awaited : PollResolves(key)
TimeoutFiresSome == \E key \in awaited : TimeoutFires(key)

NextLoad ==
    \/ \E file \in LoadFiles : LoadMidi(file)
    \/ \E key \in DOMAIN samplers : SamplerLoaded(key)
    \/ PollRearmsSome
    \/ PollResolvesSome
    \/ TimeoutFiresSome
    \/ LoadReturns

\* The host runs a runnable callback or continuation eventually; whether a
\* sampler ever finishes loading is up to the network.
SpecLoad ==
    /\ InitLoad
    /\ [][NextLoad]_vars
    /\ WF_vars(PollRearmsSome)
    /\ WF_vars(PollResolvesSome)
    /\ WF_vars(TimeoutFiresSome)
    /\ WF_vars(LoadReturns)

----------------------------------------------------------------------------
(* Playback of the sampler MidiHandler of public/midi-handler.js, whose     *)
(* play() is async.  Its startTime is held in startTimestamp and its        *)
(* pauseTime in pauseOffset; pendingPlays holds the play() calls that wait  *)
(* in await Tone.start().                                                   *)

MaxStarting == 2     \* play() calls that may wait in await Tone.start()
MaxSynthSets == 3    \* sets of synths that may be left undisposed

HandlerVariants == { "handler", "sampler" }

\* A violin track.
PlayFileViolin ==
    << [channel |-> 0, program |-> 40, notes |-> << MkNote(67, 0, 1, 4) >>] >>

\* The files the soundfont handler loads.
HandlerFiles == { PlayFileB, PlayFileViolin }

\* The file the sampler handler plays, and the manifest it has fetched.
SamplerFiles == { LoadFilePianos }
SamplerManifest == { "piano" }

InitHandler ==
    /\ variant \in HandlerVariants
    /\ manifest = (IF variant = "sampler" THEN SamplerManifest ELSE {})
    /\ input = <<>>
    /\ midi = Null
    /\ notes = <<>>
    /\ channels = << >>
    /\ snap = Null
    /\ PlayerConstructed
    /\ EngineConstructed
    /\ AppConstructed
    /\ PageConstructed

\* play(startTime) up to await Tone.start(): stop(), and nothing more
\* without a file.
SamplerPlay(startTime) ==
    /\ variant = "sampler"
    /\ midi # Null => Len(pendingPlays) < MaxStarting
    /\ HandlerStopped
    /\ pendingPlays' = IF midi = Null THEN pendingPlays ELSE Append(pendingPlays, startTime)
    /\ UNCHANGED <<engVars, appVars, idleVars, input, aVars, isPaused, currentTime, duration,
                   pauseOffset, startTimestamp, animationFrame, instruments, now, suspended,
                   loading, lastTrigger>>

\* The events of a pass that can still run: the transport does not go back
\* to an event whose time it has passed.
Ahead(reg, clock) == { tm \in Range(reg) : tm.due >= clock }

\* play(startTime) after await Tone.start(): the flags, scheduleAllNotes
\* (the ids of scheduledEvents cleared, a new set of synths assigned to
\* this.drumSynths, an event per note) and Tone.Transport.start(), which
\* leaves a transport that is started as it is.
SamplerPlayStarts ==
    /\ variant = "sampler"
    /\ pendingPlays # <<>>
    /\ undisposed < MaxSynthSets
    /\ LET startTime == Head(pendingPlays)
           started == IF transportStart = Null THEN now ELSE transportStart[1]
           reg == HandlerEvents(midi[1], startTime, started)
       IN /\ pendingPlays' = Tail(pendingPlays)
          /\ isPlaying' = TRUE
          /\ pauseOffset' = startTime
          /\ startTimestamp' = now - startTime
          /\ timers' = Outlived(ClearTimeouts(timers, scheduledEvents)) \cup Ahead(reg, now)
          /\ scheduledEvents' = reg
          /\ drumSynths' = TRUE
          /\ undisposed' = undisposed + 1
          /\ transportStart' = Some(started)
          /\ lastTrigger' = Null
          /\ lastSchedule' = Some([from |-> startTime, file |-> midi[1]])
          /\ resched' = Passing(Cancelling(resched, timers))
    /\ UNCHANGED <<engVars, appVars, idleVars, input, aVars, isPaused, currentTime, duration,
                   animationFrame, instruments, now, suspended, loading>>

\* pause(): pauseTime = getCurrentTime(), then stop().
SamplerPause ==
    /\ variant = "sampler"
    /\ IF ~isPlaying
       THEN UNCHANGED <<isPlaying, pauseOffset, timers, scheduledEvents, lastSchedule,
                        resched, synthVars>>
       ELSE /\ pauseOffset' = HandlerCurrentTime
            /\ HandlerStopped
    /\ UNCHANGED <<engVars, appVars, idleVars, input, aVars, isPaused, currentTime, duration,
                   startTimestamp, animationFrame, instruments, now, suspended, pendingPlays,
                   loading, lastTrigger>>

\* stop()
SamplerStop ==
    /\ variant = "sampler"
    /\ HandlerStopped
    /\ UNCHANGED <<engVars, appVars, idleVars, input, aVars, isPaused, currentTime, duration,
                   pauseOffset, startTimestamp, animationFrame, instruments, now, suspended,
                   pendingPlays, loading, lastTrigger>>

\* What the callback of a transport event plays: the kick synth for a
\* channel-9 track, the sampler of the track when it has loaded, nothing
\* otherwise.
SamplerVoice(tm) ==
    IF tm.channel = PercChannel THEN [kind |-> "drum"]
    ELSE IF tm.track \in DOMAIN samplers /\ samplers[tm.track].loaded
         THEN [kind |-> "sampler", track |-> tm.track]
         ELSE [kind |-> "none"]

\* The transport reaches an event and runs its callback.
SamplerEventFires(tm) ==
    /\ variant = "sampler"
    /\ tm \in timers
    /\ Runnable(tm, timers, now)
    /\ timers' = timers \ {tm}
    /\ lastTrigger' = Some(Trigger(tm, SamplerVoice(tm)))
    /\ UNCHANGED <<lVars, idleVars, input, aVars, pVars, now, suspended, pendingPlays, loading,
                   lastSchedule, resched>>

\* The times play() is called with.
HandlerStartTimes == { 0, 1 }

NextHandler ==
    \/ \E file \in HandlerFiles : HandlerLoadMidiFile(file)
    \/ \E s \in HandlerStartTimes : HandlerPlay(s)
    \/ HandlerPause
    \/ HandlerStop
    \/ \E i \in loading : \E ok \in BOOLEAN : SoundfontSettles(i, ok)
    \/ \E tm \in timers : \E threw \in BOOLEAN : TransportEventFires(tm, threw)
    \/ \E file \in SamplerFiles : LoadMidi(file)
    \/ \E key \in DOMAIN samplers : SamplerLoaded(key)
    \/ PollRearmsSome
    \/ PollResolvesSome
    \/ LoadReturns
    \/ \E s \in HandlerStartTimes : SamplerPlay(s)
    \/ SamplerPlayStarts
    \/ SamplerPause
    \/ SamplerStop
    \/ \E tm \in timers : SamplerEventFires(tm)
    \/ Tick

SpecHandler == InitHandler /\ [][NextHandler]_vars

----------------------------------------------------------------------------
(* Initialisation: MidiPlayerManager.init() and MidiEngine.init(), each an  *)
(* async function that tests isInitialized on entry and sets it at its end. *)

MaxInitCalls == 3    \* init() calls made on one object

InitInit ==
    /\ variant \in TimerVariants
    /\ input = <<>>
    /\ midi = Null
    /\ notes = <<>>
    /\ channels = << >>
    /\ snap = Null
    /\ PlayerConstructed
    /\ manifest = {}
    /\ EngineConstructed
    /\ AppConstructed
    /\ PageConstructed

\* The variables no init() touches.
InitFrame ==
    UNCHANGED <<variant, pageVars, input, aVars, pVars, hostVars, loading, histVars, engVars,
                synthVars, isMidiMode, appIsPlaying, mgrIsPlaying, mgrIsPaused, vizMidi, appLoad,
                viaManager, alerted, gesture>>

\* MidiPlayerManager.init() is called (by processFile, or by loadMidi when
\* the manager is not initialised): it returns at once when isInitialized
\* is set and waits in await import(...) otherwise.
ManagerInitCalled ==
    /\ mgrCalls < MaxInitCalls
    /\ mgrCalls' = mgrCalls + 1
    /\ mgrImporting' = IF initialized THEN mgrImporting ELSE mgrImporting + 1
    /\ UNCHANGED <<initialized, mgrIniting, players, engCalls, engStarting, engInitialized,
                   outputs>>
    /\ InitFrame

\* The import has resolved: this.player = new ...Player(), then
\* await this.player.init().
ManagerImported ==
    /\ mgrImporting > 0
    /\ mgrImporting' = mgrImporting - 1
    /\ players' = players + 1
    /\ mgrIniting' = mgrIniting + 1
    /\ UNCHANGED <<initialized, mgrCalls, engCalls, engStarting, engInitialized, outputs>>
    /\ InitFrame

\* this.player.init() has resolved: the references are taken and
\* isInitialized is set.
ManagerPlayerReady ==
    /\ mgrIniting > 0
    /\ mgrIniting' = mgrIniting - 1
    /\ initialized' = TRUE
    /\ UNCHANGED <<mgrCalls, mgrImporting, players, engCalls, engStarting, engInitialized,
                   outputs>>
    /\ InitFrame

\* MidiEngine.init() is called: it returns at once when isInitialized is
\* set and waits in await Tone.setContext(...) / Tone.start() otherwise.
EngineInitCalled ==
    /\ engCalls < MaxInitCalls
    /\ engCalls' = engCalls + 1
    /\ engStarting' = IF engInitialized THEN engStarting ELSE engStarting + 1
    /\ UNCHANGED <<initialized, mgrCalls, mgrImporting, mgrIniting, players, engInitialized,
                   outputs>>
    /\ InitFrame

\* The context is ready: this.output = new Tone.Gain(...), connected, and
\* isInitialized is set.
EngineContextReady ==
    /\ engStarting > 0
    /\ engStarting' = engStarting - 1
    /\ outputs' = outputs + 1
    /\ engInitialized' = TRUE
    /\ UNCHANGED <<initialized, mgrCalls, mgrImporting, mgrIniting, players, engCalls>>
    /\ InitFrame

NextInit ==
    \/ ManagerInitCalled
    \/ ManagerImported
    \/ ManagerPlayerReady
    \/ EngineInitCalled
    \/ EngineContextReady

SpecInit == InitInit /\ [][NextInit]_vars

----------------------------------------------------------------------------
(* The frame loop of AudioVisualizerApp: the visualizer list, the mode     *)
(* buttons and animate, in public/app.js ("app") and in the version of the *)
(* class kept in unnamed/part_005 ("part5").  One frame is the unit of a    *)
(* visualizer's time.                                                       *)

NumVisualizers == 3  \* visualizers initVisualizers() builds
MaxVizTime == 2      \* frames a visualizer is updated for

ViewVariants == { "app", "part5" }

\* The arguments switchMode is called with: the indexes of the list and one
\* on either side.
ModeIndexes == (0 - 1)..NumVisualizers

\* A visualizer as constructed: this.time = 0, no analysis yet.
NewVisualizer == [time |-> 0, analysis |-> "none"]

\* The list initVisualizers() assigns.
BuiltVisualizers == [i \in 0..(NumVisualizers - 1) |-> NewVisualizer]

\* this.visualizers.length
VizLength(list) == Cardinality(DOMAIN list)

\* Visualizer.update(analysis, dt): this.analysis = analysis and
\* this.time += dt * this.speedMultiplier.
VizUpdate(v, analysis) == [time |-> v.time + 1, analysis |-> analysis]

\* The negation of the test switchMode returns on, without its upper bound.
ValidModeNoUpper(index, length) == ~(index < 0)

\* The negation of the test switchMode returns on:
\* index < 0 || index >= this.visualizers.length.
ValidMode(index, length) == ~(index < 0 \/ index >= length)

\* A frame that calls update on every visualizer of the list before it
\* renders the current one.
FrameCallsEvery(list, index, updateThrows) ==
    IF index \notin DOMAIN list THEN <<>>
    ELSE [k \in 1..VizLength(list) |-> [op |-> "update", index |-> k - 1]]
         \o << [op |-> "render", index |-> index] >>

\* The visualizer methods a frame calls: none when the list has nothing at
\* the index, update alone when update throws, update and render otherwise.
FrameCalls(list, index, updateThrows) ==
    IF index \notin DOMAIN list THEN <<>>
    ELSE IF updateThrows THEN << [op |-> "update", index |-> index] >>
    ELSE << [op |-> "update", index |-> index], [op |-> "render", index |-> index] >>

\* init(): initVisualizers(), the listeners and the first
\* requestAnimationFrame.  app.js catches a failure of initVisualizers and
\* goes on with the empty list; in part_005 any failure before the request
\* ends init() in its catch block.
AppInit(built, armed) ==
    /\ variant \in ViewVariants
    /\ ~appStarted
    /\ variant = "app" => armed
    /\ (variant = "part5" /\ ~built) => ~armed
    /\ appStarted' = TRUE
    /\ visualizers' = IF built THEN BuiltVisualizers ELSE << >>
    /\ frameArmed' = armed
    /\ UNCHANGED <<currentModeIndex, frameCalls, exportVars, beatVars, coreVars>>

\* switchMode(index)
SwitchMode(index) ==
    /\ variant \in ViewVariants
    /\ appStarted
    /\ currentModeIndex' = IF ValidMode(index, VizLength(visualizers)) THEN index
                           ELSE currentModeIndex
    /\ UNCHANGED <<appStarted, visualizers, frameArmed, frameCalls, exportVars, beatVars,
                   coreVars>>

\* animate(time): update and render of the visualizer at currentModeIndex,
\* inside try / catch in app.js and bare in part_005, then the request for
\* the next frame.  An update that throws leaves its visualizer as it was.
Animate(beat, updateThrows, renderThrows) ==
    /\ variant \in ViewVariants
    /\ frameArmed
    /\ LET calls == FrameCalls(visualizers, currentModeIndex, updateThrows)
           updated == IF updateThrows THEN {}
                      ELSE { c.index : c \in { d \in Range(calls) : d.op = "update" } }
           threw == calls # <<>> /\ (updateThrows \/ renderThrows)
       IN /\ \A i \in updated : visualizers[i].time < MaxVizTime
          /\ visualizers' =
               [i \in DOMAIN visualizers |->
                   IF i \in updated
                   THEN VizUpdate(visualizers[i], IF beat THEN "beat" ELSE "quiet")
                   ELSE visualizers[i]]
          /\ frameCalls' = calls
          /\ frameArmed' = (variant = "app" \/ ~threw)
    /\ UNCHANGED <<appStarted, currentModeIndex, exportVars, beatVars, coreVars>>

InitView ==
    /\ variant \in ViewVariants
    /\ input = <<>>
    /\ midi = Null
    /\ notes = <<>>
    /\ channels = << >>
    /\ snap = Null
    /\ PlayerConstructed
    /\ manifest = {}
    /\ EngineConstructed
    /\ AppConstructed
    /\ PageConstructed

NextView ==
    \/ \E built, armed \in BOOLEAN : AppInit(built, armed)
    \/ \E index \in ModeIndexes : SwitchMode(index)
    \/ \E beat, updateThrows, renderThrows \in BOOLEAN : Animate(beat, updateThrows, renderThrows)

SpecView == InitView /\ [][NextView]_vars

----------------------------------------------------------------------------
(* Video export: VideoExporter in public/video-exporter.js ("exporter")    *)
(* and the second class of that name in public/viz-spectrum.js             *)
(* ("spectrum"), behind the export button of AudioVisualizerApp.            *)

ExportVariants == { "exporter", "spectrum" }
Ratios == { "16:9", "9:16" }
Qualities == { "1080p", "2k" }
WindowSizes == { "small", "large" }

\* targetW x targetH for the options.
TargetSize(ratio, quality) ==
    IF ratio = "9:16"
    THEN IF quality = "2k" THEN "1440x2560" ELSE "1080x1920"
    ELSE IF quality = "2k" THEN "2560x1440" ELSE "1920x1080"

\* How far a stretch of startRecording can get: it throws, it reaches an
\* await, or it reaches the end of the function with the recorder created.
\* video-exporter.js has one await (audioContext.resume(), when the context
\* is suspended); viz-spectrum.js waits 100 ms first.
StartOutcomes(phase) ==
    IF phase = "idle"
    THEN IF variant = "spectrum" THEN { "throws", "settling" }
         ELSE { "throws", "resuming", "created" }
    ELSE IF phase = "settling" THEN { "throws", "resuming", "created" }
    ELSE { "throws", "created" }

\* A stretch of startRecording and, when the function has returned, the
\* click handler after its await: the class 'recording' on success, the
\* toast of the catch block on failure.  video-exporter.js starts the
\* recorder at once; viz-spectrum.js leaves it inactive and starts it from
\* a timer one second later.
Continued(outcome) ==
    IF outcome = "throws"
    THEN /\ exportPhase' = "idle"
         /\ UNCHANGED <<recorder, btnRecording>>
    ELSE IF outcome = "created"
    THEN /\ recorder' = Some(IF variant = "spectrum" THEN "inactive" ELSE "recording")
         /\ exportPhase' = IF variant = "spectrum" THEN "warmup" ELSE "idle"
         /\ btnRecording' = TRUE
    ELSE /\ exportPhase' = outcome
         /\ UNCHANGED <<recorder, btnRecording>>

\* A click on the export button while the exporter is not recording:
\* startRecording(options) up to its first await.
StartClicked(ratio, quality, outcome) ==
    /\ variant \in ExportVariants
    /\ ~isRecording
    /\ exportPhase = "idle"
    /\ outcome \in StartOutcomes(exportPhase)
    /\ isRecording' = TRUE
    /\ originalSize' = windowSize
    /\ canvasSize' = TargetSize(ratio, quality)
    /\ Continued(outcome)
    /\ UNCHANGED <<windowSize, viewVars, beatVars, coreVars>>

\* The await startRecording waits in is over.
ExportContinues(outcome) ==
    /\ variant \in ExportVariants
    /\ exportPhase \in { "settling", "resuming" }
    /\ outcome \in StartOutcomes(exportPhase)
    /\ Continued(outcome)
    /\ UNCHANGED <<isRecording, canvasSize, originalSize, windowSize, viewVars, beatVars,
                   coreVars>>

\* The warm-up timer of viz-spectrum.js: recorder.start(1000) when the
\* recorder is inactive.
WarmupFires ==
    /\ variant \in ExportVariants
    /\ exportPhase = "warmup"
    /\ exportPhase' = "idle"
    /\ recorder' = Some("recording")
    /\ UNCHANGED <<isRecording, canvasSize, originalSize, windowSize, btnRecording, viewVars,
                   beatVars, coreVars>>

\* A click on the export button while isRecording is set: stopRecording().
\* this.recorder.stop() throws on a null recorder, before anything is
\* changed; on a recording one it ends in onstop, which restores the canvas
\* and calls app.onResize(); on an inactive one it does nothing.
StopClicked ==
    /\ variant \in ExportVariants
    /\ isRecording
    /\ IF recorder = Null
       THEN UNCHANGED <<isRecording, recorder, canvasSize, btnRecording>>
       ELSE /\ isRecording' = FALSE
            /\ recorder' = Some("inactive")
            /\ canvasSize' = IF recorder = Some("recording") THEN windowSize ELSE canvasSize
            /\ btnRecording' = FALSE
    /\ UNCHANGED <<exportPhase, originalSize, windowSize, viewVars, beatVars, coreVars>>

\* The window is resized: onResize() leaves the canvas alone while the
\* exporter is recording.
WindowResized(size) ==
    /\ variant \in ExportVariants
    /\ size # windowSize
    /\ windowSize' = size
    /\ canvasSize' = IF isRecording THEN canvasSize ELSE size
    /\ UNCHANGED <<isRecording, recorder, exportPhase, originalSize, btnRecording, viewVars,
                   beatVars, coreVars>>

InitExport ==
    /\ variant \in ExportVariants
    /\ input = <<>>
    /\ midi = Null
    /\ notes = <<>>
    /\ channels = << >>
    /\ snap = Null
    /\ PlayerConstructed
    /\ manifest = {}
    /\ EngineConstructed
    /\ AppConstructed
    /\ PageConstructed

NextExport ==
    \/ \E ratio \in Ratios : \E quality \in Qualities :
          \E outcome \in StartOutcomes("idle") : StartClicked(ratio, quality, outcome)
    \/ \E outcome \in { "throws", "resuming", "created" } : ExportContinues(outcome)
    \/ WarmupFires
    \/ StopClicked
    \/ \E size \in WindowSizes : WindowResized(size)

SpecExport == InitExport /\ [][NextExport]_vars

----------------------------------------------------------------------------
(* Beat detection of AudioAnalyzer (public/audio-analyzer.js, "audio").    *)
(* Times are in milliseconds, as performance.now() gives them; energies    *)
(* are integers.                                                            *)

HistorySize == 43    \* this.historySize
BeatCooldown == 100  \* this.beatCooldown
MinSamples == 5      \* if (this.energyHistory.length < 5) return false
SensNum == 3         \* this.sensitivity = 1.5, as SensNum / SensDen
SensDen == 2
TickMs == 50         \* the clock advances in steps of this many ms
MaxBeatTicks == 6    \* the clock stops after this many steps
MaxSpikes == 1       \* loud samples within one history window

\* The total energies analyze() passes: a quiet level and a loud one.
Energies == { 1, 4 }

Spikes(history) == Cardinality({ k \in DOMAIN history : history[k] = SetMax(Energies) })

\* this.energyHistory.push(energy); if (length > historySize) shift()
Pushed(history, energy) ==
    LET pushed == Append(history, energy)
    IN IF Len(pushed) > HistorySize THEN Tail(pushed) ELSE pushed

\* avgEnergy > 0 and energy / avgEnergy > this.sensitivity, with
\* avgEnergy = sum / length.
RatioAbove(energy, history) ==
    /\ SumSeq(history) > 0
    /\ energy * Len(history) * SensDen > SensNum * SumSeq(history)

\* A test that lets a beat follow another at once.
CooledDownAtOnce(clock, last) == clock - last >= 0

\* (now - this.lastBeatTime) > this.beatCooldown
CooledDown(clock, last) == clock - last > BeatCooldown

\* detectBeat(energy), called by analyze() once a frame.
DetectBeat(energy) ==
    /\ variant = "audio"
    /\ energy = SetMax(Energies) => Spikes(energyHistory) < MaxSpikes
    /\ LET history == Pushed(energyHistory, energy)
           beat == /\ ~(Len(history) < MinSamples)
                   /\ RatioAbove(energy, history)
                   /\ CooledDown(beatClock, lastBeatTime)
       IN /\ energyHistory' = history
          /\ lastBeatTime' = IF beat THEN beatClock ELSE lastBeatTime
          /\ beatTimes' = IF ~beat THEN beatTimes
                          ELSE IF beatTimes = <<>> THEN << beatClock >>
                          ELSE << beatTimes[Len(beatTimes)], beatClock >>
          /\ samples' = Min(samples + 1, MinSamples)
    /\ UNCHANGED <<beatClock, viewVars, exportVars, coreVars>>

\* performance.now() advances.
BeatTick ==
    /\ variant = "audio"
    /\ beatClock < MaxBeatTicks * TickMs
    /\ beatClock' = beatClock + TickMs
    /\ UNCHANGED <<energyHistory, lastBeatTime, beatTimes, samples, viewVars, exportVars,
                   coreVars>>

InitBeat ==
    /\ variant = "audio"
    /\ input = <<>>
    /\ midi = Null
    /\ notes = <<>>
    /\ channels = << >>
    /\ snap = Null
    /\ PlayerConstructed
    /\ manifest = {}
    /\ EngineConstructed
    /\ AppConstructed
    /\ PageConstructed

NextBeat ==
    \/ \E energy \in Energies : DetectBeat(energy)
    \/ BeatTick

SpecBeat == InitBeat /\ [][NextBeat]_vars

----------------------------------------------------------------------------
(* Properties of note processing and of the snapshot.                       *)

IsSortedByStart(s) == \A i \in 1..(Len(s) - 1) : s[i].startTime <= s[i + 1].startTime

\* The notes of the selected file in the order processNotes pushes them.
PushedObjs == FlatMap(LAMBDA i : TrackObjs(input[i]), Len(input))

Occurrences(s, x) == Cardinality({ k \in 1..Len(s) : s[k] = x })

SnapTime == snap[1].time
SnapValue == snap[1].value
HasField(v, f) == f \in DOMAIN v
IsBeatTrue(v) == HasField(v, "isBeat") /\ v.isBeat = TRUE

\* C4: after processNotes the flat note list is sorted non-decreasingly by
\* startTime, every note has endTime = startTime + duration, and the list
\* holds exactly one entry per note of every track (as many copies of a
\* note object as the tracks hold).
C4_ProcessedNotesSorted ==
    midi # Null =>
        /\ IsSortedByStart(notes)
        /\ \A k \in 1..Len(notes) : notes[k].endTime = notes[k].startTime + notes[k].duration
        /\ Len(notes) = SumSeq([i \in 1..Len(input) |-> Len(input[i].notes)])
        /\ \A k \in 1..Len(PushedObjs) :
              Occurrences(notes, PushedObjs[k]) = Occurrences(PushedObjs, PushedObjs[k])

\* A file of several tracks whose notes were pushed out of order is loaded.
C4_Witness ==
    /\ midi # Null
    /\ Len(input) >= 2
    /\ Len(notes) >= 2
    /\ ~IsSortedByStart(PushedObjs)

\* C3 as stated: isBeat is true iff some note of the list starts within
\* 0.02 s of the query time, before or after it.
C3_BeatIffAnyNoteNear ==
    snap # Null =>
        (IsBeatTrue(SnapValue) <=>
            \E k \in 1..Len(notes) : Abs(notes[k].startTime - SnapTime) < BeatEps)

\* C3 amended: isBeat is true iff some note that is active at the query time
\* (startTime <= t <= endTime) started less than 0.02 s before it; a note
\* that has not started yet, or has already ended, raises no beat.
C3_BeatIffActiveNoteJustStarted ==
    snap # Null =>
        (IsBeatTrue(SnapValue) <=>
            \E k \in 1..Len(notes) :
                /\ 0 <= SnapTime - notes[k].startTime
                /\ SnapTime - notes[k].startTime < BeatEps
                /\ SnapTime <= notes[k].startTime + notes[k].duration)

\* A query 19 ms before the only notes start: near, not active, no beat.
C3_Witness ==
    /\ snap # Null
    /\ midi # Null
    /\ notes # <<>>
    /\ \A k \in 1..Len(notes) : notes[k].startTime - SnapTime = BeatEps - 1
    /\ ~IsBeatTrue(SnapValue)

\* C5: each of bass, mid and high of a snapshot lies in [0, 1], however many
\* notes are active.
C5_EnergiesClamped ==
    snap # Null =>
        /\ SnapValue.bass \in 0..VelOne
        /\ SnapValue.mid \in 0..VelOne
        /\ SnapValue.high \in 0..VelOne

\* Active bass notes whose velocities add up to more than 1.0.
C5_Witness ==
    /\ snap # Null
    /\ BassSum(ActiveNotes(notes, SnapTime)) > VelOne
    /\ SnapValue.bass = VelOne

NoTrackHasNotes(file) == \A i \in 1..Len(file) : file[i].notes = <<>>

\* C9: a loaded file in which no track has notes leaves the note list and
\* the channel index empty, and every snapshot taken then is all zero:
\* bass = mid = high = totalEnergy = 0, isBeat false, 32 bars of 0 and an
\* empty channelData.
C9_EmptyFileAllZero ==
    (midi # Null /\ NoTrackHasNotes(midi[1])) =>
        /\ notes = <<>>
        /\ DOMAIN channels = {}
        /\ snap # Null =>
             /\ SnapValue.bass = 0 /\ SnapValue.mid = 0 /\ SnapValue.high = 0
             /\ SnapValue.totalEnergy = 0
             /\ HasField(SnapValue, "isBeat") /\ SnapValue.isBeat = FALSE
             /\ Len(SnapValue.bars) = NumBars
             /\ \A i \in 1..NumBars : SnapValue.bars[i] = 0
             /\ SnapValue.channelData = <<>>

\* A file with tracks, none of which has a note, was loaded and analysed.
C9_Witness ==
    /\ midi # Null
    /\ Len(midi[1]) >= 2
    /\ NoTrackHasNotes(midi[1])
    /\ snap # Null

\* The fields of a snapshot taken with a file loaded.
LoadedFields ==
    IF variant = "handler" THEN DOMAIN HandlerAnalysis(<<>>, << >>, 0)
    ELSE DOMAIN AnalyzerAnalysis(Some(<<>>), <<>>, << >>, 0)

\* C10: every snapshot has the same fixed set of fields, file or no file,
\* and with no file every energy is zero and the beat flag is false.
C10_FixedShapeSnapshot ==
    snap # Null =>
        /\ DOMAIN SnapValue = LoadedFields
        /\ midi = Null =>
             /\ SnapValue.bass = 0 /\ SnapValue.mid = 0 /\ SnapValue.high = 0
             /\ SnapValue.totalEnergy = 0
             /\ SnapValue.isBeat = FALSE

\* The positions of the flat list whose note sounds at t, both ends counted.
SoundingAt(t) == { k \in 1..Len(notes) : notes[k].startTime <= t /\ t <= notes[k].endTime }

RECURSIVE VelocitySum(_, _)
\* The velocities of the notes of list ns at the positions S, added up.
VelocitySum(ns, S) ==
    IF S = {} THEN 0
    ELSE LET k == CHOOSE x \in S : TRUE
         IN ns[k].velocity + VelocitySum(ns, S \ {k})

BassAt(t) == { k \in SoundingAt(t) : notes[k].note < BassBelow }
MidAt(t) == { k \in SoundingAt(t) : notes[k].note >= BassBelow /\ notes[k].note <= MidBelow - 1 }
HighAt(t) == { k \in SoundingAt(t) : notes[k].note >= MidBelow }

\* C15: a snapshot taken at t has bass, mid and high equal to min(1, sum of
\* the velocities) of the notes with startTime <= t <= endTime whose pitch
\* is below 48, from 48 to 71, and 72 or above, and these three sets of
\* notes split the sounding notes between them.
C15_EnergiesByPitchRange ==
    snap # Null =>
        /\ SnapValue.bass = Min(VelOne, VelocitySum(notes, BassAt(SnapTime)))
        /\ SnapValue.mid = Min(VelOne, VelocitySum(notes, MidAt(SnapTime)))
        /\ SnapValue.high = Min(VelOne, VelocitySum(notes, HighAt(SnapTime)))
        /\ BassAt(SnapTime) \cup MidAt(SnapTime) \cup HighAt(SnapTime) = SoundingAt(SnapTime)
        /\ BassAt(SnapTime) \cap MidAt(SnapTime) = {}
        /\ BassAt(SnapTime) \cap HighAt(SnapTime) = {}
        /\ MidAt(SnapTime) \cap HighAt(SnapTime) = {}

\* A query at the very instant one note ends and another starts, both counted,
\* in different ranges.
C15_Witness ==
    /\ snap # Null
    /\ \E k \in SoundingAt(SnapTime) : notes[k].endTime = SnapTime
    /\ \E k \in SoundingAt(SnapTime) : notes[k].startTime = SnapTime
    /\ SnapValue.bass > 0
    /\ SnapValue.high > 0

\* The channel ids of the notes of the flat list.
NoteChannels == { notes[k].channel : k \in 1..Len(notes) }

\* The positions of the flat list whose note is on channel c and sounds at t.
SoundingOn(c, t) == { k \in SoundingAt(t) : notes[k].channel = c }

\* C16: channelData of a snapshot has one entry per channel that has a
\* note in the file, in ascending order of channel id; an entry's noteCount
\* is the number of notes of its channel sounding at t, its energy
\* min(1, sum of their velocities), and the noteCounts add up to the
\* number of notes of the flat list sounding at t.
C16_ChannelDataPerChannel ==
    (snap # Null /\ midi # Null) =>
        LET data == SnapValue.channelData
        IN /\ { data[k].channelId : k \in 1..Len(data) } = NoteChannels
           /\ \A k \in 1..(Len(data) - 1) : data[k].channelId < data[k + 1].channelId
           /\ \A k \in 1..Len(data) :
                 /\ data[k].noteCount = Cardinality(SoundingOn(data[k].channelId, SnapTime))
                 /\ data[k].energy =
                      Min(VelOne, VelocitySum(notes, SoundingOn(data[k].channelId, SnapTime)))
           /\ SumSeq([k \in 1..Len(data) |-> data[k].noteCount])
                 = Cardinality(SoundingAt(SnapTime))

\* Three tracks on three channels, notes sounding on two of them.
C16_Witness ==
    /\ snap # Null
    /\ midi # Null
    /\ Len(SnapValue.channelData) = 2
    /\ \A k \in 1..2 : SnapValue.channelData[k].noteCount = 1
    /\ Len(midi[1]) = 3

\* C17: after processNotes the channel index has a key for exactly the
\* channels of the notes of the flat list, each key holds exactly the notes
\* of the flat list on that channel, and each of these lists is sorted
\* non-decreasingly by startTime.
C17_ChannelListsSorted ==
    midi # Null =>
        /\ DOMAIN channels = NoteChannels
        /\ \A c \in DOMAIN channels :
              /\ \A k \in 1..Len(channels[c]) :
                    /\ channels[c][k].channel = c
                    /\ Occurrences(channels[c], channels[c][k])
                         = Occurrences(notes, channels[c][k])
              /\ Len(channels[c]) = Cardinality({ k \in 1..Len(notes) : notes[k].channel = c })
              /\ IsSortedByStart(channels[c])

\* What a query at t returns in the current state.
AnalysisAt(t) ==
    IF variant = "handler" THEN HandlerAnalysis(notes, channels, t)
    ELSE AnalyzerAnalysis(midi, notes, channels, t)

\* C18: a call of getAnalysis changes nothing but the snapshot it returns
\* (the file, the note list, the channel index and every other field stay
\* as they were), and the snapshot of a call is the value the query has in
\* the state it left, so that a query has one answer whatever calls came
\* before it.
C18_GetAnalysisIsPure ==
    /\ [](snap # Null => SnapValue = AnalysisAt(SnapTime))
    /\ [][(snap' # Null /\ snap' # snap) =>
             UNCHANGED <<idleVars, input, midi, notes, channels, pVars, hostVars, loading,
                         histVars, lVars>>]_vars

\* A query at a time by which a note of the loaded file has ended while
\* another sounds.
C18_Witness ==
    /\ snap # Null
    /\ midi # Null
    /\ \E k \in 1..Len(notes) : notes[k].endTime < SnapTime
    /\ SnapValue.totalEnergy > 0

----------------------------------------------------------------------------
(* Properties of the playback scheduler.                                    *)

OnTimers(evs) == SelectSeq(evs, LAMBDA tm : tm.kind = "on")

\* Start time and pitch of the note a callback captured (a processed note
\* object in WebAudioFontPlayer, the note of the track elsewhere).
NoteStart(n) == IF "startTime" \in DOMAIN n THEN n.startTime ELSE n.time
NotePitch(n) == IF "note" \in DOMAIN n THEN n.note ELSE n.midi

\* <<pitch, start, channel>> of every note of a file, track after track.
FileKeys(file) ==
    FlatMap(LAMBDA i : [k \in 1..Len(file[i].notes) |->
                           << file[i].notes[k].midi, file[i].notes[k].time,
                              file[i].channel >>],
            Len(file))

TimerKeys(ons) ==
    [k \in 1..Len(ons) |-> << NotePitch(ons[k].note), NoteStart(ons[k].note), ons[k].channel >>]

\* C1: every note trigger that happens after the latest scheduling pass
\* comes from a callback registered by that pass; a callback of an earlier
\* pass never triggers a note, whatever the sequence of play, pause, resume,
\* stop and seek calls.
C1_NoStaleTrigger == lastTrigger # Null => ~lastTrigger[1].stale

\* A pass, a pending note-on of it cleared, a later pass, and a note
\* triggered since.
C1_Witness ==
    /\ resched = "again"
    /\ lastTrigger # Null
    /\ ~lastTrigger[1].stale

\* C2: the note-on callbacks registered by a scheduling pass from offset f
\* are exactly one per note with startTime >= f, each with delay
\* startTime - f, and none for a note with startTime < f.
C2_RegistersNotesFromOffset ==
    lastSchedule # Null =>
        LET f == lastSchedule[1].from
            all == FileKeys(lastSchedule[1].file)
            ons == OnTimers(scheduledEvents)
            keys == TimerKeys(ons)
        IN /\ \A k \in 1..Len(ons) :
                 /\ NoteStart(ons[k].note) >= f
                 /\ ons[k].delay = NoteStart(ons[k].note) - f
           /\ Range(keys) \subseteq Range(all)
           /\ \A x \in Range(all) :
                 Occurrences(keys, x) = IF x[2] >= f THEN Occurrences(all, x) ELSE 0

\* A second pass, from an offset at which one note is still sounding and
\* another one starts.
C2_Witness ==
    /\ lastSchedule # Null
    /\ resched = "again"
    /\ scheduledEvents # <<>>
    /\ LET f == lastSchedule[1].from
           file == lastSchedule[1].file
       IN /\ \E i \in 1..Len(file) : \E k \in 1..Len(file[i].notes) :
                /\ file[i].notes[k].time < f
                /\ f < file[i].notes[k].time + file[i].notes[k].duration
          /\ \E i \in 1..Len(file) : \E k \in 1..Len(file[i].notes) :
                file[i].notes[k].time = f

\* The voices that play a pitched instrument: a WebAudioFont preset, a
\* soundfont instrument, the fallback synth.
MelodicVoices == { "preset", "instrument", "fallback" }

FiredOf(evs, ts) == { e \in Range(evs) : e.kind = "on" /\ e \notin ts }

\* C24: pause() records the playback time reached, so that every note whose
\* callback has run starts no later than the recorded time and is not scheduled
\* again by the resume that follows; while paused the reported current time
\* does not move as the clock, the timers and the frames run; and resume()
\* schedules from the recorded time.
C24_ResumeContinuesFromPause ==
    [][/\ (Pause /\ isPlaying) =>
             /\ pauseOffset' = currentTime
             /\ \A e \in FiredOf(scheduledEvents, timers) :
                   NoteStart(e.note) <= pauseOffset'
       /\ (HandlerPause /\ isPlaying) =>
             \A e \in FiredOf(scheduledEvents, timers) : NoteStart(e.note) <= pauseOffset'
       /\ (isPaused /\ (Tick \/ FrameFires \/ \E tm \in timers : TimerFires(tm))) =>
             currentTime' = currentTime
       /\ (Resume /\ isPaused /\ ~suspended) =>
             lastSchedule' = Some([from |-> pauseOffset, file |-> midi[1]])]_vars

\* getCurrentTime() of the player in use.
ReportedTime == IF variant = "handler" THEN HandlerCurrentTime ELSE currentTime

\* C25: while a file plays the reported current time does not exceed the
\* duration of the file, and the frame callback that finds the duration
\* reached clears isPlaying and requests no further frame.
C25_PlaybackEndsAtDuration ==
    /\ []((midi # Null /\ isPlaying) => ReportedTime <= MidiDuration(midi[1]))
    /\ [][(FrameFires /\ isPlaying /\ now - startTimestamp >= duration) =>
             (~isPlaying' /\ animationFrame' = "spent" /\ currentTime' = duration)]_vars

----------------------------------------------------------------------------
(* Properties of the application in front of a player.                      *)

\* C11: when new Midi() throws for the selected file, the step that ends
\* the failed load shows an alert, invokes no play() (no play is left
\* waiting, no callback is registered) and leaves the player not playing,
\* also when an earlier file was playing at that moment.
C11_FailedLoadAbortsPlayback ==
    [][(appLoad # Null /\ ~appLoad[1].ok /\ appLoad' = Null) =>
          (alerted' /\ ~isPlaying' /\ UNCHANGED <<pendingPlays, scheduledEvents>>)]_vars

\* C19: after a pause and a seek to t while paused (t before the end), the
\* resume of the next play-button toggle leaves the player playing, with
\* the scheduling pass from t standing.
C19_ResumeAfterSeekPlaysFromThere ==
    [][(gesture.op = "sought" /\ gesture'.op = "resumed" /\ ~suspended
        /\ gesture.at < duration) =>
          (isPlaying' /\ lastSchedule' = Some([from |-> gesture.at, file |-> midi[1]]))]_vars

\* C13: in the per-track engine and in the sampler handler, once a file has
\* been loaded, every sampler held under a track index of that file was
\* created by this load from the track's own program, every part plays a
\* melodic track through such a sampler, and no sampler of an earlier file
\* is left.
C13_SamplersAreOfTheLoadedFile ==
    (variant \in { "engineTrack", "sampler" } /\ loadPhase = "done") =>
        /\ \A key \in DOMAIN samplers :
              /\ samplers[key].gen = loads
              /\ key \in 1..Len(midi[1])
              /\ samplers[key].lib = GetLibraryName(midi[1][key].program, manifest)
        /\ \A p \in parts :
              /\ samplers[p.sampler].gen = loads
              /\ midi[1][p.track].channel # PercChannel

\* The voice the claim expects for a melodic note: the instrument of the
\* track's own program once that instrument is the one loaded for the
\* track and its play() does not throw, the fallback synth otherwise.
ExpectedVoice(tm, threw) ==
    IF /\ tm.track \in DOMAIN instruments
       /\ instruments[tm.track] = CleanInstrumentName(midi[1][tm.track].program)
       /\ ~threw
    THEN [kind |-> "instrument", track |-> tm.track,
          name |-> CleanInstrumentName(midi[1][tm.track].program)]
    ELSE [kind |-> "fallback"]

\* C14: in the soundfont handler every melodic note whose callback fires
\* triggers exactly one voice, chosen from the state at that moment: the
\* loaded instrument of its track, or the fallback synth while that
\* instrument is loading, after it failed to load, or when play() throws.
C14_MelodicVoiceChosenAtFireTime ==
    [][\A tm \in timers : \A threw \in BOOLEAN :
          (TransportEventFires(tm, threw) /\ tm.channel # PercChannel) =>
              lastTrigger' = Some(Trigger(tm, ExpectedVoice(tm, threw)))]_vars

\* C21: in the soundfont handler this.instruments holds, under a track
\* index, only the instrument requested for that track of the file loaded
\* last (or the fallback marker of that request): a promise started for an
\* earlier file never writes into the table.
C21_InstrumentsOfLoadedFile ==
    (variant = "handler" /\ midi # Null) =>
        \A i \in DOMAIN instruments :
            /\ i \in MelodicTracks(midi[1])
            /\ instruments[i] \in
                  { CleanInstrumentName(midi[1][i].program), "fallback_synth" }

\* C22: however init() and loadMidi() calls interleave, the manager
\* constructs at most one player, and MidiEngine.init builds at most one
\* output chain.
C22_InitialisedOnce == players <= 1 /\ outputs <= 1

\* C23: neither the player nor the player manager ever has isPlaying and
\* isPaused both set, after any sequence of play, pause, resume, stop, seek
\* and natural end of playback.
C23_NeverPlayingAndPaused ==
    /\ ~(isPlaying /\ isPaused)
    /\ ~(mgrIsPlaying /\ mgrIsPaused)

\* A file was played and paused through the manager: both objects paused.
C23_Witness ==
    /\ isPaused /\ ~isPlaying
    /\ mgrIsPaused /\ ~mgrIsPlaying
    /\ gesture.op = "paused"

\* No file load is in progress and no play() waits for the audio context.
NoOperationInFlight == appLoad = Null /\ pendingPlays = <<>>

\* C20: in MIDI mode, with no player operation in flight, the isPlaying
\* flag of the application equals the isPlaying flag of the player.
C20_AppFlagMatchesPlayer ==
    (isMidiMode /\ NoOperationInFlight) => (appIsPlaying = isPlaying)

----------------------------------------------------------------------------
(* Properties of the synths of a MidiHandler.                               *)

\* C12: at most one set of drum / fallback synths is undisposed at any
\* time, whatever the sequence of play, pause and stop calls and however
\* the bodies of two play() calls overlap; and while playback is stopped
\* no set is undisposed and scheduledEvents is empty.
C12_StopDisposesEverySynth ==
    /\ undisposed <= 1
    /\ ~isPlaying => (undisposed = 0 /\ scheduledEvents = <<>>)

----------------------------------------------------------------------------
(* Properties of instrument loading.                                        *)

\* The distinct libraries the note-bearing non-percussion tracks of the
\* loaded file resolve to.
ResolvedLibs == { TrackLibs(midi[1], manifest)[k].lib :
                    k \in 1..Len(TrackLibs(midi[1], manifest)) }

\* C6: loadInstruments constructs as many samplers as there are distinct
\* resolved libraries among the note-bearing non-percussion tracks: two
\* tracks of the same library share one sampler.
C6_OneSamplerPerLibrary ==
    loadPhase \in { "waiting", "done" } => createdNow = Cardinality(ResolvedLibs)

\* C8: a file load that waits for its samplers completes eventually, even
\* when a sampler never reports loaded.
C8_LoadEventuallyCompletes == (loadPhase = "waiting") ~> (loadPhase = "done")

----------------------------------------------------------------------------
(* Properties of the frame loop.                                            *)

\* Some frame runs.
AnimateStep == \E beat, updateThrows, renderThrows \in BOOLEAN :
                  Animate(beat, updateThrows, renderThrows)

\* update and then render of the visualizer at the index.
UpdateThenRender(index) ==
    << [op |-> "update", index |-> index], [op |-> "render", index |-> index] >>

\* C26: a frame calls update and then render on the visualizer at
\* currentModeIndex and on no other: the calls of a frame are update and
\* render of that visualizer, in this order (update alone when it throws,
\* nothing when the list has no visualizer at the index), both of them
\* when neither throws, and every other visualizer is left as it was.
C26_OnlyActiveVisualizerUpdated ==
    [][AnimateStep =>
          /\ \A i \in DOMAIN visualizers :
                i # currentModeIndex => visualizers'[i] = visualizers[i]
          /\ \E n \in 0..2 : frameCalls' = SubSeq(UpdateThenRender(currentModeIndex), 1, n)
          /\ ((\E beat \in BOOLEAN : Animate(beat, FALSE, FALSE))
                 /\ currentModeIndex \in DOMAIN visualizers) =>
                /\ frameCalls' = UpdateThenRender(currentModeIndex)
                /\ visualizers'[currentModeIndex].time > visualizers[currentModeIndex].time]_vars

\* A frame has updated and rendered the second visualizer after the mode
\* was switched from the first, which an earlier frame had updated.
C26_Witness ==
    /\ currentModeIndex = 1
    /\ frameCalls = UpdateThenRender(1)
    /\ visualizers[1].time = 1
    /\ visualizers[0].time = 1
    /\ visualizers[2].time = 0

\* What a switchMode call changes: the index, when it is one of the list.
SwitchModeChangesIndexOnly ==
    [][\A index \in ModeIndexes :
          SwitchMode(index) =>
             /\ currentModeIndex' = IF index \in DOMAIN visualizers THEN index
                                    ELSE currentModeIndex
             /\ UNCHANGED <<appStarted, visualizers, frameArmed, frameCalls, exportVars,
                            beatVars, coreVars>>]_vars

\* C27 as stated: switchMode(i) sets currentModeIndex to i when i is an
\* index of the visualizer list and changes nothing else, changes nothing
\* for any other i, and currentModeIndex is an index of the list after any
\* sequence of switchMode calls.
C27_IndexAlwaysValid ==
    /\ [](appStarted => currentModeIndex \in DOMAIN visualizers)
    /\ SwitchModeChangesIndexOnly

\* C27, amended: the same, with currentModeIndex an index of the list
\* whenever the list is not empty (initVisualizers may leave it empty).
C27_IndexValidInNonEmptyList ==
    /\ [](visualizers # << >> => currentModeIndex \in DOMAIN visualizers)
    /\ SwitchModeChangesIndexOnly

\* The mode was switched to the last visualizer of the list.
C27_Witness ==
    /\ appStarted
    /\ visualizers # << >>
    /\ currentModeIndex = NumVisualizers - 1

\* C28: every call of animate requests the next frame, also when the list
\* has no visualizer at the index and when update or render throws.
C28_FrameLoopNeverStops == [][AnimateStep => frameArmed']_vars

----------------------------------------------------------------------------
(* Properties of the video exporter.                                        *)

\* A stretch of startRecording throws.
StartFails ==
    \/ \E ratio \in Ratios : \E quality \in Qualities : StartClicked(ratio, quality, "throws")
    \/ ExportContinues("throws")

\* C29: when startRecording throws after it has set isRecording, the
\* exporter is not recording afterwards: isRecording is false, and it is
\* never set with no start in flight and no recorder created, so that the
\* next click does not call stop() on a null recorder.
C29_FailedStartNotRecording ==
    /\ [][StartFails => ~isRecording']_vars
    /\ []((isRecording /\ exportPhase = "idle") => recorder # Null)

----------------------------------------------------------------------------
(* Properties of beat detection.                                            *)

\* C30: two beats detectBeat reports are at least beatCooldown apart, no
\* beat is reported before MinSamples energies have been passed in, and
\* the energy history never holds more than historySize samples.
C30_BeatsCooledDown ==
    /\ Len(beatTimes) = 2 => beatTimes[2] - beatTimes[1] >= BeatCooldown
    /\ beatTimes # <<>> => samples >= MinSamples
    /\ Len(energyHistory) <= HistorySize

\* Two beats have been reported, the second with the history full.
C30_Witness ==
    /\ Len(beatTimes) = 2
    /\ Len(energyHistory) = HistorySize
    /\ lastBeatTime = beatTimes[2]

====
